---- MODULE Spec2Model ----
(***************************************************************************)
(* A model of the local workspace sandbox (package workspace): the path    *)
(* guard, the atomic writer, the diff applier and the command gate, over a *)
(* small POSIX filesystem with directories, symlinks, inodes and a page    *)
(* cache.  Strings are sequences of one-character strings; a path is a     *)
(* record [abs, comps] whose comps are its components between separators.  *)
(***************************************************************************)
EXTENDS Integers, Sequences, FiniteSets, TLC

VARIABLES
    cfg,      \* config.Config: AllowedPaths, BlockedExtensions, MaxFileBytes, BuildTimeout
    allowedCommands, \* OSWorkspace.allowedCommands
    dirent,   \* the directory tree: absolute component sequence -> node
    inodes,   \* inode number -> [c: content in the page cache, d: content on disk]
    sp,       \* the last sanitizePath call and its result
    wr,       \* the WriteFile calls in progress, one per caller
    rd,       \* the last ReadFile call and its result
    ad,       \* the ApplyUnifiedDiff call in progress
    ex,       \* the Execute / SecureExec call in progress
    child,    \* the subprocess of the call in progress
    q,        \* the last isAllowedCommand query and its result
    op,       \* the last call of one of the other operations and its result
    srv,      \* mcp.Server: lastActivity, the ticker of RunSTDIO and the clock
    rl        \* config.Reloader, its goroutines and the config file it watches

fsVars == <<dirent, inodes>>
vars == <<cfg, allowedCommands, dirent, inodes, sp, wr, rd, ad, ex, child, q, op, srv, rl>>

-----------------------------------------------------------------------------
(* Bounds of the model *)

\* the longest untrusted path, in components
MaxPathLen == 3
\* the longest command string, in characters
MaxCmdLen == 4
\* the ticks a subprocess may run before it is certain to have been stopped
MaxClock == 3

-----------------------------------------------------------------------------
(* Strings *)

Min(a, b) == IF a < b THEN a ELSE b
Max(a, b) == IF a > b THEN a ELSE b

\* unicode.IsSpace, over the characters of the model
IsSpace(ch) == ch \in {" ", "\t", "\n"}

RECURSIVE TrimLeft(_)
TrimLeft(s) == IF s # <<>> /\ IsSpace(Head(s)) THEN TrimLeft(Tail(s)) ELSE s

RECURSIVE TrimRight(_)
TrimRight(s) ==
    IF s # <<>> /\ IsSpace(s[Len(s)]) THEN TrimRight(SubSeq(s, 1, Len(s) - 1)) ELSE s

\* strings.TrimSpace
TrimSpace(s) == TrimRight(TrimLeft(s))

\* strings.HasPrefix
HasPrefix(s, p) == Len(p) <= Len(s) /\ SubSeq(s, 1, Len(p)) = p

\* strings.HasSuffix
HasSuffix(s, p) == Len(p) <= Len(s) /\ SubSeq(s, Len(s) - Len(p) + 1, Len(s)) = p

\* strings.ToLower, over the letters of the model
LowerChar(ch) ==
    CASE ch = "E" -> "e"
      [] ch = "X" -> "x"
      [] OTHER -> ch

ToLower(s) == [i \in 1..Len(s) |-> LowerChar(s[i])]

\* strings.Fields(s)[0] for a string that holds a non-space character
RECURSIVE FirstWord(_)
FirstWord(s) ==
    IF s = <<>> \/ IsSpace(Head(s)) THEN <<>> ELSE <<Head(s)>> \o FirstWord(Tail(s))

FirstField(s) == FirstWord(TrimLeft(s))

\* all sequences over S of length at most n
RECURSIVE SeqsUpTo(_, _)
SeqsUpTo(S, n) ==
    IF n = 0 THEN {<<>>}
    ELSE LET R == SeqsUpTo(S, n - 1)
         IN  R \cup {Append(r, x) : r \in {t \in R : Len(t) = n - 1}, x \in S}

-----------------------------------------------------------------------------
(* Paths (path/filepath on a POSIX system) *)

Dot == <<".">>
DotDot == <<".", ".">>

\* a path string: abs says whether it starts with the separator
Path(abs, comps) == [abs |-> abs, comps |-> comps]

Front(s) == SubSeq(s, 1, Len(s) - 1)
Last(s) == s[Len(s)]

\* filepath.Clean: drops empty and "." components and resolves ".." lexically
RECURSIVE CleanComps(_, _, _)
CleanComps(abs, done, rest) ==
    IF rest = <<>> THEN done
    ELSE LET c == Head(rest)
         IN  IF c = <<>> \/ c = Dot THEN CleanComps(abs, done, Tail(rest))
             ELSE IF c # DotDot THEN CleanComps(abs, Append(done, c), Tail(rest))
             ELSE IF done # <<>> /\ Last(done) # DotDot
                  THEN CleanComps(abs, Front(done), Tail(rest))
             ELSE IF abs THEN CleanComps(abs, done, Tail(rest))
             ELSE CleanComps(abs, Append(done, c), Tail(rest))

Clean(p) == Path(p.abs, CleanComps(p.abs, <<>>, p.comps))

\* strings.TrimSpace on a path string: white space before the first and after the
\* last component goes; a relative path that was " /x" becomes the absolute "/x"
PathTrimSpace(p) ==
    IF p.comps = <<>> THEN p
    ELSE LET n == Len(p.comps)
             r == [p.comps EXCEPT ![n] = TrimRight(p.comps[n])]
             l == IF p.abs THEN r ELSE [r EXCEPT ![1] = TrimLeft(r[1])]
         IN  IF ~p.abs /\ l[1] = <<>> /\ n > 1 THEN Path(TRUE, Tail(l))
             ELSE IF ~p.abs /\ l[1] = <<>> THEN Path(FALSE, <<>>)
             ELSE Path(p.abs, l)

\* path == "" (before Clean, a relative path of no component is the empty string)
IsEmptyPath(p) == ~p.abs /\ p.comps = <<>>

\* filepath.Join(root, path) for an absolute root
Join(root, p) == Path(TRUE, CleanComps(TRUE, <<>>, root \o p.comps))

RECURSIVE CommonLen(_, _)
CommonLen(a, b) ==
    IF a # <<>> /\ b # <<>> /\ Head(a) = Head(b)
    THEN 1 + CommonLen(Tail(a), Tail(b)) ELSE 0

\* filepath.Rel(base, targ) for two clean absolute paths, as components (<<>> is ".")
Rel(base, targ) ==
    LET k == CommonLen(base, targ)
    IN  [i \in 1..(Len(base) - k) |-> DotDot] \o SubSeq(targ, k + 1, Len(targ))

\* the characters of an absolute path
RECURSIVE PathString(_)
PathString(comps) ==
    IF comps = <<>> THEN <<>> ELSE <<"/">> \o Head(comps) \o PathString(Tail(comps))

AbsString(comps) == IF comps = <<>> THEN <<"/">> ELSE PathString(comps)

\* filepath.Ext: the suffix of the last component from its last dot
RECURSIVE ExtOf(_)
ExtOf(name) ==
    IF name = <<>> THEN <<>>
    ELSE LET r == ExtOf(Tail(name))
         IN  IF r # <<>> THEN r ELSE IF Head(name) = "." THEN name ELSE <<>>

Ext(comps) == IF comps = <<>> THEN <<>> ELSE ExtOf(Last(comps))

\* absPath + suffix
AddSuffix(comps, suffix) == Append(Front(comps), Last(comps) \o suffix)

TmpSuffix == <<".", "t", "m", "p">>
BakSuffix == <<".", "b", "a", "k">>

-----------------------------------------------------------------------------
(* The filesystem *)

\* the walk of filepath.EvalSymlinks gives up after this many links
MaxLinks == 3

DirNode == [k |-> "dir", t |-> <<>>, ino |-> 0]
NoNode == [k |-> "none", t |-> <<>>, ino |-> 0]
LinkNode(t) == [k |-> "link", t |-> t, ino |-> 0]
FileNode(i) == [k |-> "file", t |-> <<>>, ino |-> i]

Lookup(fs, p) ==
    IF p = <<>> THEN DirNode ELSE IF p \in DOMAIN fs THEN fs[p] ELSE NoNode

\* the walk of a path from the directory dest: every symlink on the way is
\* followed; err is "" | "notexist" | "other" (ENOTDIR, ELOOP)
RECURSIVE Walk(_, _, _, _)
Walk(fs, dest, rest, fuel) ==
    IF rest = <<>> THEN [err |-> "", path |-> dest]
    ELSE LET p == Append(dest, Head(rest))
             n == Lookup(fs, p)
         IN  IF Lookup(fs, dest).k # "dir" THEN [err |-> "other", path |-> <<>>]
             ELSE IF n.k = "none" THEN [err |-> "notexist", path |-> <<>>]
             ELSE IF n.k = "link"
                  THEN IF fuel = 0 THEN [err |-> "other", path |-> <<>>]
                       ELSE Walk(fs, <<>>, n.t \o Tail(rest), fuel - 1)
             ELSE Walk(fs, p, Tail(rest), fuel)

\* filepath.EvalSymlinks of an absolute clean path
EvalSymlinks(fs, comps) == Walk(fs, <<>>, comps, MaxLinks)

\* where a system call that names comps acts: symlinks in the directory part are
\* followed, the last component is kept (rename, unlink, lstat)
ResolveParent(fs, comps) ==
    IF comps = <<>> THEN [err |-> "", path |-> <<>>]
    ELSE LET d == Walk(fs, <<>>, Front(comps), MaxLinks)
         IN  IF d.err # "" THEN d
             ELSE IF Lookup(fs, d.path).k # "dir" THEN [err |-> "other", path |-> <<>>]
             ELSE [err |-> "", path |-> Append(d.path, Last(comps))]

\* where open(2) and stat(2) act: the last component is followed as well, and may
\* be missing (O_CREAT creates it there)
RECURSIVE ResolveOpen(_, _, _)
ResolveOpen(fs, comps, fuel) ==
    LET r == ResolveParent(fs, comps)
    IN  IF r.err # "" THEN r
        ELSE IF Lookup(fs, r.path).k # "link" THEN r
        ELSE IF fuel = 0 THEN [err |-> "other", path |-> <<>>]
        ELSE ResolveOpen(fs, Lookup(fs, r.path).t, fuel - 1)

\* os.Stat: "" | "notexist" | "other", and the node found
Stat(fs, comps) ==
    LET r == ResolveOpen(fs, comps, MaxLinks)
    IN  IF r.err # "" THEN [err |-> r.err, node |-> NoNode]
        ELSE IF Lookup(fs, r.path).k = "none" THEN [err |-> "notexist", node |-> NoNode]
        ELSE [err |-> "", node |-> Lookup(fs, r.path)]

\* the content a reader of the path sees: <<-1>> for no file there
Absent == <<-1>>
ContentAt(fs, ino, comps) ==
    LET s == Stat(fs, comps)
    IN  IF s.err = "" /\ s.node.k = "file" THEN ino[s.node.ino].c ELSE Absent

\* the smallest inode number that no directory entry and no open file uses
FreeIno(used) == CHOOSE i \in 1..(Cardinality(used) + 1) :
                    i \notin used /\ \A j \in 1..(i - 1) : j \in used

-----------------------------------------------------------------------------
(* The path guard *)

\* OSWorkspace.root, and a directory that is not under it
Root == << <<"r">> >>
Outside == << <<"o">> >>

NameD == <<"d">>
NameL == <<"l">>
NameN == <<"n">>
NameF == <<"f">>

InRoot(comps) == Len(comps) >= Len(Root) /\ SubSeq(comps, 1, Len(Root)) = Root

PathOk(abs) == [ok |-> TRUE, err |-> "", abs |-> abs]
PathFail(e) == [ok |-> FALSE, err |-> e, abs |-> <<>>]

\* one entry of cfg.AllowedPaths made absolute
AbsAllowed(allowedPrefix) ==
    IF allowedPrefix.abs THEN Clean(allowedPrefix).comps
    ELSE Join(Root, allowedPrefix).comps

sanitizePath(fs, c, path) ==
    LET trimmed == PathTrimSpace(path)
    IN  IF IsEmptyPath(trimmed) THEN PathFail("empty")
        ELSE
        LET cleaned == Clean(trimmed)
            joined == IF cleaned.abs THEN cleaned.comps ELSE Join(Root, cleaned).comps
            real == EvalSymlinks(fs, joined)
        IN  IF real.err = "other" THEN PathFail("resolve")
            ELSE
            LET absPath == IF real.err = "" THEN real.path ELSE joined
                rel == Rel(Root, absPath)
            IN  IF rel # <<>> /\ rel[1] = DotDot THEN PathFail("escape")
                ELSE IF /\ Len(c.AllowedPaths) > 0
                        /\ ~\E i \in 1..Len(c.AllowedPaths) :
                              HasPrefix(AbsString(absPath),
                                        AbsString(AbsAllowed(c.AllowedPaths[i])))
                     THEN PathFail("notallowed")
                ELSE PathOk(absPath)

\* isBlockedExtension
isBlockedExtension(c, comps) ==
    LET ext == ToLower(Ext(comps))
    IN  /\ ext # <<>>
        /\ \E i \in 1..Len(c.BlockedExtensions) : ToLower(c.BlockedExtensions[i]) = ext

\* where the filesystem puts what is opened or created under the name comps:
\* every symlink that exists on the way is followed, what does not exist yet is
\* created below the place reached
RECURSIVE Reach(_, _, _, _)
Reach(fs, dest, rest, fuel) ==
    IF rest = <<>> THEN dest
    ELSE LET p == Append(dest, Head(rest))
             n == Lookup(fs, p)
         IN  IF n.k = "link" /\ fuel > 0 THEN Reach(fs, <<>>, n.t \o Tail(rest), fuel - 1)
             ELSE IF n.k = "link" THEN <<>>
             ELSE Reach(fs, p, Tail(rest), fuel)

Denotes(fs, comps) == Reach(fs, <<>>, comps, MaxLinks)

-----------------------------------------------------------------------------
(* Parked values: what a variable holds while no call of its kind is in progress *)

NoCall == [pc |-> "idle"]
\* no server has been made
NoServer == [pc |-> "none"]
\* no reloader has been made
NoReloader == [pc |-> "none"]
NoPath == Path(FALSE, <<>>)

\* the callers that may run WriteFile at the same time
Writers == {1, 2}

IdleW == [pc |-> "idle", path |-> NoPath, data |-> <<>>, allowCreate |-> FALSE,
          ctxDone |-> FALSE, absPath |-> <<>>, fd |-> 0, off |-> 0, err |-> "",
          pre |-> <<>>, made |-> FALSE]
NoWrites == [w \in Writers |-> IdleW]

IdleAd == [pc |-> "idle", patches |-> <<>>, dryRun |-> FALSE, ctxDone |-> FALSE,
           i |-> 0, appliedFiles |-> <<>>, errRet |-> "", errLoop |-> "",
           absPath |-> <<>>, statOk |-> FALSE, patched |-> <<>>, defers |-> <<>>,
           fd |-> 0, off |-> 0, pre |-> <<>>, moved |-> FALSE]

\* what Execute returns
ExecRes(stdout, stderr, exitCode, err) ==
    [stdout |-> stdout, stderr |-> stderr, exitCode |-> exitCode, err |-> err]

IdleEx == [pc |-> "idle", secure |-> FALSE, cmd |-> <<>>, args |-> <<>>,
           timeoutSeconds |-> 0, timeout |-> 0, clock |-> 0, ctxErr |-> "",
           stdout |-> <<>>, stderr |-> <<>>, runErr |-> "", code |-> 0,
           res |-> ExecRes(<<>>, <<>>, 0, "")]

\* no subprocess; out and err are what has been written to the pipes of its
\* stdout and stderr, heirs whether descendants of it hold those pipes open
IdleChild == [pc |-> "none", out |-> <<>>, err |-> <<>>, code |-> 0, heirs |-> FALSE]

\* NewOSWorkspace: the whitelist of the configuration, or the default one ("go",
\* "go test", ...) when the configuration has none
DefaultCommands == << <<"g">>, <<"g", " ", "t">> >>
NewAllowedCommands(configured) ==
    IF Len(configured) = 0 THEN DefaultCommands ELSE configured

Cfg(allowed, blocked, maxBytes, timeout) ==
    [AllowedPaths |-> allowed, BlockedExtensions |-> blocked,
     MaxFileBytes |-> maxBytes, BuildTimeout |-> timeout]

\* the configuration after setDefaults, with the blocked extension of the model
ExtExe == <<".", "e">>
DefaultCfg == Cfg(<<>>, <<ExtExe>>, 2, 2)

\* the inodes of a tree whose files are all empty
EmptyInodes(fs) ==
    [i \in {fs[p].ino : p \in {x \in DOMAIN fs : fs[x].k = "file"}} |-> [c |-> <<>>, d |-> <<>>]]

\* a set of optional directory entries as a function
Tree(pairs) == [p \in {x[1] : x \in pairs} |-> (CHOOSE x \in pairs : x[1] = p)[2]]

-----------------------------------------------------------------------------
(* SpecPath: sanitizePath called on every path of the model, in every tree *)

\* the entries a tree of SpecPath may hold besides the root and the outside
\* directory: a directory d, a file n beside it and one outside, and the name l,
\* which may be a symlink to the outside directory, to d, to a missing file
\* outside, or to itself
PathTrees ==
    { Tree({<<Root, DirNode>>, <<Outside, DirNode>>} \cup ds \cup ns \cup os \cup ls) :
        ds \in {{}, {<<Append(Root, NameD), DirNode>>}},
        ns \in {{}, {<<Append(Root, NameN), FileNode(1)>>}},
        os \in {{}, {<<Append(Outside, NameN), FileNode(2)>>}},
        ls \in {{}} \cup {{<<Append(Root, NameL), LinkNode(t)>>} :
                            t \in {Outside, Append(Root, NameD), Append(Outside, NameN),
                                   Append(Root, NameL)}} }

PathNames == {NameD, NameL, NameN, DotDot}

\* the untrusted paths: relative ones, absolute ones under the root and under the
\* outside directory, and three with white space around them
PathInputs ==
    {Path(FALSE, cs) : cs \in SeqsUpTo(PathNames, MaxPathLen)}
    \cup {Path(TRUE, pre \o cs) : pre \in {Root, Outside},
                                 cs \in SeqsUpTo(PathNames, MaxPathLen - 1)}
    \cup {Path(FALSE, << <<" ">> >>), Path(FALSE, << <<" ", "n">> >>),
          Path(FALSE, << <<" ">>, <<"o">>, <<"n", " ">> >>)}

PathCfgs == {Cfg(<<>>, <<>>, 2, 2), Cfg(<<Path(FALSE, <<NameD>>)>>, <<>>, 2, 2)}

Parked(v) == v = NoCall

InitPath ==
    /\ cfg \in PathCfgs
    /\ allowedCommands = NewAllowedCommands(<<>>)
    /\ dirent \in PathTrees
    /\ inodes = EmptyInodes(dirent)
    /\ sp = NoCall
    /\ wr = NoWrites /\ rd = NoCall /\ ad = IdleAd /\ ex = IdleEx /\ child = IdleChild
    /\ q = NoCall /\ op = NoCall /\ srv = NoServer /\ rl = NoReloader

SanitizePathCall ==
    /\ sp.pc = "idle"
    /\ \E p \in PathInputs :
          sp' = [pc |-> "done", path |-> p, res |-> sanitizePath(dirent, cfg, p)]
    /\ UNCHANGED <<cfg, allowedCommands, dirent, inodes, wr, rd, ad, ex, child, q, op, srv, rl>>

\* the caller takes the result
SanitizePathReturn ==
    /\ sp.pc = "done"
    /\ sp' = NoCall
    /\ UNCHANGED <<cfg, allowedCommands, dirent, inodes, wr, rd, ad, ex, child, q, op, srv, rl>>

NextPath == SanitizePathCall \/ SanitizePathReturn

SpecPath == InitPath /\ [][NextPath]_vars

\* C1: sanitizePath succeeds only if the place its result names, with every
\* symlink on the way resolved, is the sandbox root or lies under it.
C1_OnlyInsideRoot ==
    (sp.pc = "done" /\ sp.res.ok) => InRoot(Denotes(dirent, sp.res.abs))

-----------------------------------------------------------------------------
(* System calls.  Each gives [err, fs, ino, fd]: err is "" on success. *)

SysRes(e, fs, ino, fd) == [err |-> e, fs |-> fs, ino |-> ino, fd |-> fd]

\* the inodes in use: the ones a directory entry names and the ones held open
Linked(fs) == {fs[p].ino : p \in {x \in DOMAIN fs : fs[x].k = "file"}}

\* an inode with no directory entry and no open descriptor is freed
Collect(fs, ino, open) == [i \in DOMAIN ino \cap (Linked(fs) \cup open) |-> ino[i]]

\* a mutant of SysCreate: the file is opened without O_TRUNC
SysCreateNoTrunc(fs, ino, open, comps) ==
    LET r == ResolveOpen(fs, comps, MaxLinks)
        n == Lookup(fs, r.path)
        i == FreeIno(Linked(fs) \cup open)
    IN  IF r.err # "" THEN SysRes(r.err, fs, ino, 0)
        ELSE IF n.k = "dir" THEN SysRes("other", fs, ino, 0)
        ELSE IF n.k = "file" THEN SysRes("", fs, ino, n.ino)
        ELSE SysRes("", fs @@ (r.path :> FileNode(i)),
                    ino @@ (i :> [c |-> <<>>, d |-> <<>>]), i)

\* a mutant of SysRemove: the file is left where it is
SysRemoveSkipped(fs, ino, open, comps) == SysRes("", fs, ino, 0)

\* os.Create / os.OpenFile(O_RDWR|O_CREATE|O_TRUNC): an existing file is emptied
\* in place (same inode), a missing one is created; open are the descriptors held
SysCreate(fs, ino, open, comps) ==
    LET r == ResolveOpen(fs, comps, MaxLinks)
        n == Lookup(fs, r.path)
        i == FreeIno(Linked(fs) \cup open)
    IN  IF r.err # "" THEN SysRes(r.err, fs, ino, 0)
        ELSE IF n.k = "dir" THEN SysRes("other", fs, ino, 0)
        ELSE IF n.k = "file"
             THEN SysRes("", fs, [ino EXCEPT ![n.ino].c = <<>>], n.ino)
        ELSE SysRes("", fs @@ (r.path :> FileNode(i)),
                    ino @@ (i :> [c |-> <<>>, d |-> <<>>]), i)

\* one byte written through a descriptor at offset off (bytes skipped read as 0)
SysWriteByte(ino, fd, off, b) ==
    LET old == ino[fd].c
        n == Max(Len(old), off + 1)
    IN  [ino EXCEPT ![fd].c =
            [k \in 1..n |-> IF k = off + 1 THEN b
                            ELSE IF k <= Len(old) THEN old[k] ELSE 0]]

\* a mutant of SysSync: the temporary file is never flushed
SysSyncSkipped(ino, fd) == ino

\* File.Sync: what the page cache holds of the file reaches the disk
SysSync(ino, fd) == [ino EXCEPT ![fd].d = ino[fd].c]

\* os.Rename(from, to): the entry of from replaces the entry of to
SysRename(fs, ino, open, from, to) ==
    LET a == ResolveParent(fs, from)
        b == ResolveParent(fs, to)
        moved == [p \in (DOMAIN fs \ {a.path}) \cup {b.path} |->
                     IF p = b.path THEN fs[a.path] ELSE fs[p]]
    IN  IF a.err # "" THEN SysRes(a.err, fs, ino, 0)
        ELSE IF b.err # "" THEN SysRes(b.err, fs, ino, 0)
        ELSE IF Lookup(fs, a.path).k = "none" THEN SysRes("notexist", fs, ino, 0)
        ELSE IF Lookup(fs, a.path).k = "dir" \/ Lookup(fs, b.path).k = "dir"
             THEN SysRes("other", fs, ino, 0)
        ELSE IF a.path = b.path THEN SysRes("", fs, ino, 0)
        ELSE SysRes("", moved, Collect(moved, ino, open), 0)

\* os.Remove of a file or symlink (a directory of the model is never removed)
SysRemove(fs, ino, open, comps) ==
    LET a == ResolveParent(fs, comps)
        gone == [p \in DOMAIN fs \ {a.path} |-> fs[p]]
    IN  IF a.err # "" THEN SysRes(a.err, fs, ino, 0)
        ELSE IF Lookup(fs, a.path).k = "none" THEN SysRes("notexist", fs, ino, 0)
        ELSE IF Lookup(fs, a.path).k = "dir" THEN SysRes("other", fs, ino, 0)
        ELSE SysRes("", gone, Collect(gone, ino, open), 0)

\* a power loss: of a file whose cache was not flushed, the disk may hold either
\* the flushed or the cached content
CrashedInodes(ino) ==
    {f \in [DOMAIN ino -> {[c |-> x, d |-> x] : x \in {ino[i].c : i \in DOMAIN ino}
                                                   \cup {ino[i].d : i \in DOMAIN ino}}] :
        \A i \in DOMAIN ino : f[i].c \in {ino[i].c, ino[i].d}}

-----------------------------------------------------------------------------
(* WriteFile, one system call per step *)

\* the longest content written, in bytes
MaxDataLen == 2

OpenFds == {wr[w].fd : w \in Writers} \ {0}

tmpPathOf(absPath) == AddSuffix(absPath, TmpSuffix)

\* lines 150-158: the path and extension checks; pre remembers what the target
\* held when the call was made
WriteFileBegin(w, path, data, allowCreate, ctxDone) ==
    LET r == sanitizePath(dirent, cfg, path)
        e == IF ~r.ok THEN "path"
             ELSE IF isBlockedExtension(cfg, r.abs) THEN "blocked" ELSE ""
    IN  /\ wr[w].pc = "idle"
        /\ wr' = [wr EXCEPT ![w] =
                    [IdleW EXCEPT !.pc = IF e = "" THEN "statdir" ELSE "done",
                                  !.path = path, !.data = data,
                                  !.allowCreate = allowCreate, !.ctxDone = ctxDone,
                                  !.absPath = r.abs, !.err = e,
                                  !.pre = IF r.ok THEN ContentAt(dirent, inodes, r.abs)
                                          ELSE Absent]]
        /\ UNCHANGED <<cfg, allowedCommands, dirent, inodes, sp, rd, ad, ex, child, q, op, srv, rl>>

\* lines 160-166: os.Stat of the parent directory
WriteStatDir(w) ==
    LET s == Stat(dirent, Front(wr[w].absPath))
    IN  /\ wr[w].pc = "statdir"
        /\ wr' = [wr EXCEPT ![w].pc = IF s.err = "" THEN "create" ELSE "done",
                            ![w].err = IF s.err = "" THEN ""
                                       ELSE IF s.err = "notexist" THEN "parent"
                                       ELSE "statparent"]
        /\ UNCHANGED <<cfg, allowedCommands, dirent, inodes, sp, rd, ad, ex, child, q, op, srv, rl>>

\* lines 168-182: os.Create of the temporary file (it may fail), then the
\* cancellation check
WriteCreate(w) ==
    LET r == SysCreate(dirent, inodes, OpenFds, tmpPathOf(wr[w].absPath))
    IN  /\ wr[w].pc = "create"
        /\ \E fail \in BOOLEAN :
              IF fail \/ r.err # ""
              THEN /\ wr' = [wr EXCEPT ![w].pc = "done", ![w].err = "create"]
                   /\ UNCHANGED <<dirent, inodes>>
              ELSE /\ dirent' = r.fs
                   /\ inodes' = r.ino
                   /\ wr' = [wr EXCEPT
                        ![w].fd = r.fd, ![w].made = TRUE,
                        ![w].pc = IF wr[w].ctxDone THEN "cleanup"
                                  ELSE IF Len(wr[w].data) = 0 THEN "sync" ELSE "write",
                        ![w].err = IF wr[w].ctxDone THEN "cancelled" ELSE ""]
        /\ UNCHANGED <<cfg, allowedCommands, sp, rd, ad, ex, child, q, op, srv, rl>>

\* line 185: tmpFile.Write, byte by byte as the kernel copies it
WriteData(w) ==
    /\ wr[w].pc = "write"
    /\ inodes' = SysWriteByte(inodes, wr[w].fd, wr[w].off, wr[w].data[wr[w].off + 1])
    /\ wr' = [wr EXCEPT ![w].off = @ + 1,
                        ![w].pc = IF wr[w].off + 1 = Len(wr[w].data) THEN "sync" ELSE "write"]
    /\ UNCHANGED <<cfg, allowedCommands, dirent, sp, rd, ad, ex, child, q, op, srv, rl>>

\* lines 186-190: the write fails part of the way
WriteDataFails(w) ==
    /\ wr[w].pc = "write"
    /\ wr' = [wr EXCEPT ![w].pc = "cleanup", ![w].err = "write"]
    /\ UNCHANGED <<cfg, allowedCommands, dirent, inodes, sp, rd, ad, ex, child, q, op, srv, rl>>

\* lines 192-197: tmpFile.Sync
WriteSync(w) ==
    /\ wr[w].pc = "sync"
    /\ \E fail \in BOOLEAN :
          IF fail
          THEN /\ wr' = [wr EXCEPT ![w].pc = "cleanup", ![w].err = "sync"]
               /\ UNCHANGED inodes
          ELSE /\ inodes' = SysSync(inodes, wr[w].fd)
               /\ wr' = [wr EXCEPT ![w].pc = "close"]
    /\ UNCHANGED <<cfg, allowedCommands, dirent, sp, rd, ad, ex, child, q, op, srv, rl>>

\* lines 198-201: tmpFile.Close
WriteClose(w) ==
    /\ wr[w].pc = "close"
    /\ \E fail \in BOOLEAN :
          wr' = [wr EXCEPT ![w].fd = 0,
                           ![w].pc = IF fail THEN "cleanup"
                                     ELSE IF wr[w].allowCreate THEN "rename"
                                     ELSE "stattarget",
                           ![w].err = IF fail THEN "close" ELSE ""]
    /\ inodes' = Collect(dirent, inodes, OpenFds \ {wr[w].fd})
    /\ UNCHANGED <<cfg, allowedCommands, dirent, sp, rd, ad, ex, child, q, op, srv, rl>>

\* lines 203-212: with allowCreate=false the target must exist
WriteStatTarget(w) ==
    LET s == Stat(dirent, wr[w].absPath)
    IN  /\ wr[w].pc = "stattarget"
        /\ wr' = [wr EXCEPT ![w].pc = IF s.err = "" THEN "rename" ELSE "cleanup",
                            ![w].err = IF s.err = "" THEN ""
                                       ELSE IF s.err = "notexist" THEN "nocreate"
                                       ELSE "stattarget"]
        /\ UNCHANGED <<cfg, allowedCommands, dirent, inodes, sp, rd, ad, ex, child, q, op, srv, rl>>

\* lines 214-218: os.Rename of the temporary file over the target (it may fail)
WriteRename(w) ==
    LET r == SysRename(dirent, inodes, OpenFds, tmpPathOf(wr[w].absPath), wr[w].absPath)
    IN  /\ wr[w].pc = "rename"
        /\ \E fail \in BOOLEAN :
              IF fail \/ r.err # ""
              THEN /\ wr' = [wr EXCEPT ![w].pc = "cleanup", ![w].err = "rename"]
                   /\ UNCHANGED <<dirent, inodes>>
              ELSE /\ dirent' = r.fs
                   /\ inodes' = r.ino
                   /\ wr' = [wr EXCEPT ![w].pc = "done"]
        /\ UNCHANGED <<cfg, allowedCommands, sp, rd, ad, ex, child, q, op, srv, rl>>

\* the failure paths: tmpFile.Close() if still open, then os.Remove(tmpPath),
\* whose own error is dropped
WriteCleanup(w) ==
    LET r == SysRemove(dirent, inodes, OpenFds \ {wr[w].fd}, tmpPathOf(wr[w].absPath))
    IN  /\ wr[w].pc = "cleanup"
        /\ dirent' = r.fs
        /\ inodes' = Collect(r.fs, r.ino, OpenFds \ {wr[w].fd})
        /\ wr' = [wr EXCEPT ![w].pc = "done", ![w].fd = 0]
        /\ UNCHANGED <<cfg, allowedCommands, sp, rd, ad, ex, child, q, op, srv, rl>>

\* the caller takes the result
WriteFileReturn(w) ==
    /\ wr[w].pc = "done"
    /\ wr' = [wr EXCEPT ![w] = IdleW]
    /\ UNCHANGED <<cfg, allowedCommands, dirent, inodes, sp, rd, ad, ex, child, q, op, srv, rl>>

\* the machine loses power while a call is in progress or has just returned:
\* every descriptor is gone and what was not flushed may be lost
Crash ==
    /\ rd.pc = "idle"
    /\ \E w \in Writers : wr[w].pc \notin {"idle", "crashed"}
    /\ \E after \in CrashedInodes(inodes) : inodes' = Collect(dirent, after, {})
    /\ wr' = [w \in Writers |->
                IF wr[w].pc = "idle" THEN wr[w]
                ELSE [wr[w] EXCEPT !.pc = "crashed", !.fd = 0]]
    /\ UNCHANGED <<cfg, allowedCommands, dirent, sp, rd, ad, ex, child, q, op, srv, rl>>

-----------------------------------------------------------------------------
(* ReadFile *)

\* line 105
bufSize == 32 * 1024

\* a read loop with no limit
ReadLoopUnlimited(content, result, maxBytes) == content

\* lines 110-134: the read loop over io.LimitReader(file, maxBytes); result is
\* what has been read so far
RECURSIVE ReadLoop(_, _, _)
ReadLoop(content, result, maxBytes) ==
    LET totalRead == Len(result)
        n == IF maxBytes - totalRead <= 0 THEN 0
             ELSE Min(bufSize, Min(maxBytes - totalRead, Len(content) - totalRead))
        got == result \o SubSeq(content, totalRead + 1, totalRead + n)
    IN  IF n = 0 THEN result
        ELSE IF Len(got) >= maxBytes THEN got
        ELSE ReadLoop(content, got, maxBytes)

ReadRes(data, e) == [data |-> data, err |-> e]

ReadFile(fs, ino, c, path, maxBytesArg, ctxDone) ==
    LET r == sanitizePath(fs, c, path)
        maxBytes == IF maxBytesArg <= 0 THEN c.MaxFileBytes ELSE maxBytesArg
        s == Stat(fs, r.abs)
        content == ino[s.node.ino].c
    IN  IF ~r.ok THEN ReadRes(<<>>, "path")
        ELSE IF isBlockedExtension(c, r.abs) THEN ReadRes(<<>>, "blocked")
        ELSE IF s.err # "" THEN ReadRes(<<>>, "open")
        ELSE IF ctxDone THEN ReadRes(<<>>, "cancelled")
        ELSE IF s.node.k # "file" THEN ReadRes(<<>>, "read")
        ELSE IF Len(content) > maxBytes
             THEN ReadRes(ReadLoop(content, <<>>, maxBytes), "truncated")
        ELSE ReadRes(ReadLoop(content, <<>>, maxBytes), "")

-----------------------------------------------------------------------------
(* SpecWrite: one caller at a time writes and reads files of the workspace; the *)
(* machine may lose power at any step                                          *)

\* what the file f and its sibling f.tmp hold before the first call
OldData == <<9>>
StrayData == <<8>>

ExtE == <<".", "E">>
PathF == Path(FALSE, <<NameF>>)
AbsF == Append(Root, NameF)
WritePaths == {PathF,
               Path(FALSE, <<NameD, NameF>>),
               Path(FALSE, <<DotDot, <<"o">>, NameF>>),
               Path(FALSE, <<NameF \o ExtE>>)}

Datas == {[i \in 1..n |-> i] : n \in 0..MaxDataLen}

WriteTrees ==
    { Tree({<<Root, DirNode>>, <<Outside, DirNode>>} \cup fs \cup ts) :
        fs \in {{}, {<<AbsF, FileNode(1)>>}},
        ts \in {{}, {<<tmpPathOf(AbsF), FileNode(2)>>}} }

WriteInodes(fs) ==
    [i \in Linked(fs) |-> IF i = 1 THEN [c |-> OldData, d |-> OldData]
                          ELSE [c |-> StrayData, d |-> StrayData]]

InitWrite ==
    /\ cfg = DefaultCfg
    /\ allowedCommands = NewAllowedCommands(<<>>)
    /\ dirent \in WriteTrees
    /\ inodes = WriteInodes(dirent)
    /\ sp = NoCall
    /\ wr = NoWrites /\ rd = NoCall /\ ad = IdleAd /\ ex = IdleEx /\ child = IdleChild
    /\ q = NoCall /\ op = NoCall /\ srv = NoServer /\ rl = NoReloader

Quiet == rd.pc = "idle" /\ \A w \in Writers : wr[w].pc = "idle"

WriteFileCall(w) ==
    /\ Quiet
    /\ \E path \in WritePaths, data \in Datas, allowCreate \in BOOLEAN, ctxDone \in BOOLEAN :
          WriteFileBegin(w, path, data, allowCreate, ctxDone)

\* ReadFile is called as soon as the write before it has returned
ReadFileCall ==
    /\ rd.pc = "idle"
    /\ \A w \in Writers : wr[w].pc \in {"idle", "done"}
    /\ \E path \in WritePaths, maxBytes \in 0..(MaxDataLen + 1), ctxDone \in BOOLEAN :
          rd' = [pc |-> "done", path |-> path, maxBytes |-> maxBytes, ctxDone |-> ctxDone,
                 res |-> ReadFile(dirent, inodes, cfg, path, maxBytes, ctxDone)]
    /\ UNCHANGED <<cfg, allowedCommands, dirent, inodes, sp, wr, ad, ex, child, q, op, srv, rl>>

ReadFileReturn ==
    /\ rd.pc = "done"
    /\ rd' = NoCall
    /\ wr' = [w \in Writers |-> IF wr[w].pc = "done" THEN IdleW ELSE wr[w]]
    /\ UNCHANGED <<cfg, allowedCommands, dirent, inodes, sp, ad, ex, child, q, op, srv, rl>>

WriteStep(w) ==
    \/ WriteStatDir(w)
    \/ WriteCreate(w)
    \/ WriteData(w)
    \/ WriteDataFails(w)
    \/ WriteSync(w)
    \/ WriteClose(w)
    \/ WriteStatTarget(w)
    \/ WriteRename(w)
    \/ WriteCleanup(w)

NextWrite ==
    \/ \E w \in Writers : WriteFileCall(w)
    \/ \E w \in Writers : WriteStep(w)
    \/ \E w \in Writers : rd.pc = "idle" /\ WriteFileReturn(w)
    \/ ReadFileCall
    \/ ReadFileReturn
    \/ Crash

SpecWrite == InitWrite /\ [][NextWrite]_vars

\* the call of w has a target: its path passed the checks
HasTarget(w) == wr[w].pc \notin {"idle"} /\ wr[w].err \notin {"path"}

TargetContent(w) == ContentAt(dirent, inodes, wr[w].absPath)

\* C3: from the call on, through every step, failure and power loss, a reader of
\* the target finds what it held before the call or exactly the data of the call.
C3_OldOrNew ==
    \A w \in Writers :
        HasTarget(w) => TargetContent(w) \in {wr[w].pre, wr[w].data}

\* C3: the target changes only in the step that renames the temporary file over it.
C3_OnlyRenameChanges ==
    [][\A w \in Writers :
          (/\ HasTarget(w)
           /\ ContentAt(dirent', inodes', wr[w].absPath) # TargetContent(w))
              => (wr[w].pc = "rename" /\ wr'[w].pc = "done")]_vars

\* C3: both parts.
C3_Atomic == []C3_OldOrNew /\ C3_OnlyRenameChanges

C3_Witness_CrashAfterRename ==
    \E w \in Writers :
        /\ wr[w].pc = "crashed" /\ wr[w].pre = OldData /\ wr[w].data = <<1, 2>>
        /\ TargetContent(w) = <<1, 2>>

\* C5: when WriteFile has returned an error, the target holds what it held
\* before the call and the temporary file of the call is gone.
C5_ErrorLeavesTarget ==
    \A w \in Writers :
        (wr[w].pc = "done" /\ wr[w].err # "") =>
            /\ wr[w].err # "path" => TargetContent(w) = wr[w].pre
            /\ wr[w].made => Lookup(dirent, tmpPathOf(wr[w].absPath)).k = "none"

C5_Witness_RenameFailed ==
    \E w \in Writers :
        /\ wr[w].pc = "done" /\ wr[w].err = "rename" /\ wr[w].made
        /\ wr[w].pre = OldData /\ TargetContent(w) = OldData

\* C6: after a successful WriteFile(p, c, true), ReadFile(p, len(c)+1) called
\* next returns exactly c and no error.
C6_ReadBack ==
    \A w \in Writers :
        (/\ wr[w].pc = "done" /\ wr[w].err = "" /\ wr[w].allowCreate
         /\ rd.pc = "done" /\ rd.path = wr[w].path /\ ~rd.ctxDone
         /\ rd.maxBytes = Len(wr[w].data) + 1)
        => rd.res = ReadRes(wr[w].data, "")

C6_Witness_ReadBack ==
    \E w \in Writers :
        /\ wr[w].pc = "done" /\ wr[w].err = "" /\ wr[w].allowCreate
        /\ wr[w].data = <<1, 2>> /\ wr[w].pre = OldData
        /\ rd.pc = "done" /\ rd.path = wr[w].path /\ rd.maxBytes = 3
        /\ rd.res = ReadRes(<<1, 2>>, "")

-----------------------------------------------------------------------------
(* SpecWriteConc: two callers write the same path at the same time *)

ConcData(w) == IF w = 1 THEN <<1, 2>> ELSE <<3, 4>>

InitWriteConc ==
    /\ cfg = DefaultCfg
    /\ allowedCommands = NewAllowedCommands(<<>>)
    /\ dirent \in {t \in WriteTrees : tmpPathOf(AbsF) \notin DOMAIN t}
    /\ inodes = WriteInodes(dirent)
    /\ sp = NoCall
    /\ wr = NoWrites /\ rd = NoCall /\ ad = IdleAd /\ ex = IdleEx /\ child = IdleChild
    /\ q = NoCall /\ op = NoCall /\ srv = NoServer /\ rl = NoReloader

WriteFileCallConc(w) ==
    \E allowCreate \in BOOLEAN : WriteFileBegin(w, PathF, ConcData(w), allowCreate, FALSE)

NextWriteConc ==
    \/ \E w \in Writers : WriteFileCallConc(w)
    \/ \E w \in Writers : WriteStep(w)

SpecWriteConc == InitWriteConc /\ [][NextWriteConc]_vars

\* what f held before either call
ConcOld == {OldData, Absent}

\* C4: whatever the interleaving of two WriteFile calls on f, a reader of f finds
\* the old content, exactly c1 or exactly c2.
C4_ConcurrentOldOrNew ==
    ContentAt(dirent, inodes, AbsF) \in ConcOld \cup {ConcData(1), ConcData(2)}

-----------------------------------------------------------------------------
(* The diff engine: DiffPatch, Hunk, Line and applyPatchToContent.  File      *)
(* contents are sequences of byte values.                                      *)

\* the byte '\n'
NL == 10

Line(type, text) == [Type |-> type, Text |-> text]
Hunk(oldStart, oldCount, newStart, newCount, lines) ==
    [OldStart |-> oldStart, OldCount |-> oldCount, NewStart |-> newStart,
     NewCount |-> newCount, Lines |-> lines]

\* a variant that takes every patch for the patch of a new file
isNewFilePatchAlways(hunks) == TRUE

\* isNewFilePatch: no hunk holds a delete line
isNewFilePatch(hunks) ==
    \A i \in 1..Len(hunks) : \A j \in 1..Len(hunks[i].Lines) :
        hunks[i].Lines[j].Type # "-"

\* a DiffPatch as parseUnifiedDiff leaves it: IsNewFile is set from the hunks
DiffPatch(filePath, hunks) ==
    [FilePath |-> filePath, IsNewFile |-> isNewFilePatch(hunks), Hunks |-> hunks]

\* strings.Split(s, "\n")
RECURSIVE SplitNL(_, _)
SplitNL(s, cur) ==
    IF s = <<>> THEN <<cur>>
    ELSE IF Head(s) = NL THEN <<cur>> \o SplitNL(Tail(s), <<>>)
    ELSE SplitNL(Tail(s), Append(cur, Head(s)))

\* strings.TrimSuffix(s, "\n")
TrimSuffixNL(s) == IF s # <<>> /\ Last(s) = NL THEN Front(s) ELSE s

\* strings.Join(parts, "")
RECURSIVE Concat(_)
Concat(parts) == IF parts = <<>> THEN <<>> ELSE Head(parts) \o Concat(Tail(parts))

\* lines 394-402: the lines of the original, each with its newline
OriginalLines(original) ==
    LET parts == SplitNL(original, <<>>)
        kept == IF Len(parts) > 0 /\ Last(parts) = <<>> THEN Front(parts) ELSE parts
    IN  [i \in 1..Len(kept) |-> Append(kept[i], NL)]

\* lines 409-414: the original lines before the hunk are copied
RECURSIVE CopyUpTo(_, _, _, _)
CopyUpTo(ol, oldStart, oldLineNum, result) ==
    IF oldLineNum >= oldStart THEN [n |-> oldLineNum, result |-> result]
    ELSE CopyUpTo(ol, oldStart, oldLineNum + 1,
                  IF oldLineNum - 1 < Len(ol) THEN Append(result, ol[oldLineNum])
                  ELSE result)

\* a variant in which a delete line skips the line at the cursor whatever
\* its text
RECURSIVE ApplyLinesAnyText(_, _, _, _)
ApplyLinesAnyText(ol, lines, oldLineNum, result) ==
    IF lines = <<>> THEN [n |-> oldLineNum, result |-> result]
    ELSE LET line == Head(lines)
             inside == oldLineNum - 1 < Len(ol)
         IN  IF line.Type = "-"
             THEN ApplyLinesAnyText(ol, Tail(lines),
                                    IF inside THEN oldLineNum + 1 ELSE oldLineNum,
                                    result)
             ELSE IF line.Type = "+"
             THEN ApplyLinesAnyText(ol, Tail(lines), oldLineNum,
                                    Append(result, Append(line.Text, NL)))
             ELSE IF inside
             THEN ApplyLinesAnyText(ol, Tail(lines), oldLineNum + 1,
                                    Append(result, ol[oldLineNum]))
             ELSE ApplyLinesAnyText(ol, Tail(lines), oldLineNum,
                                    Append(result, Append(line.Text, NL)))

\* lines 417-436: the lines of one hunk
RECURSIVE ApplyLines(_, _, _, _)
ApplyLines(ol, lines, oldLineNum, result) ==
    IF lines = <<>> THEN [n |-> oldLineNum, result |-> result]
    ELSE LET line == Head(lines)
             inside == oldLineNum - 1 < Len(ol)
         IN  IF line.Type = "-"
             THEN IF inside /\ TrimSuffixNL(ol[oldLineNum]) = line.Text
                  THEN ApplyLines(ol, Tail(lines), oldLineNum + 1, result)
                  ELSE ApplyLines(ol, Tail(lines), oldLineNum, result)
             ELSE IF line.Type = "+"
             THEN ApplyLines(ol, Tail(lines), oldLineNum,
                             Append(result, Append(line.Text, NL)))
             ELSE IF line.Type = " "
             THEN IF inside
                  THEN ApplyLines(ol, Tail(lines), oldLineNum + 1,
                                  Append(result, ol[oldLineNum]))
                  ELSE ApplyLines(ol, Tail(lines), oldLineNum,
                                  Append(result, Append(line.Text, NL)))
             ELSE ApplyLines(ol, Tail(lines), oldLineNum, result)

\* lines 407-437: the hunks in turn
RECURSIVE ApplyHunks(_, _, _, _)
ApplyHunks(ol, hunks, oldLineNum, result) ==
    IF hunks = <<>> THEN [n |-> oldLineNum, result |-> result]
    ELSE LET before == CopyUpTo(ol, Head(hunks).OldStart, oldLineNum, result)
             after == ApplyLines(ol, Head(hunks).Lines, before.n, before.result)
         IN  ApplyHunks(ol, Tail(hunks), after.n, after.result)

\* a variant that joins the lines and keeps the final newline
applyPatchToContentJoined(original, patch) ==
    LET ol == OriginalLines(original)
        done == ApplyHunks(ol, patch.Hunks, 1, <<>>)
        rest == IF done.n - 1 < Len(ol) THEN SubSeq(ol, done.n, Len(ol)) ELSE <<>>
    IN  Concat(done.result \o rest)

applyPatchToContent(original, patch) ==
    LET ol == OriginalLines(original)
        done == ApplyHunks(ol, patch.Hunks, 1, <<>>)
        rest == IF done.n - 1 < Len(ol) THEN SubSeq(ol, done.n, Len(ol)) ELSE <<>>
        final == Concat(done.result \o rest)
    IN  IF Len(original) > 0 /\ Last(original) # NL THEN TrimSuffixNL(final) ELSE final

-----------------------------------------------------------------------------
(* ApplyUnifiedDiff, one system call per step.  errRet is the named result   *)
(* err of the function; errLoop is the variable err that line 52 declares in *)
(* the body of the loop, which is the one the deferred rollback reads.       *)

AdOpen == IF ad.pc = "idle" THEN {} ELSE {ad.fd} \ {0}

backupPathOf(absPath) == AddSuffix(absPath, BakSuffix)

AdUnchanged == UNCHANGED <<cfg, allowedCommands, sp, wr, rd, ex, child, q, op, srv, rl>>

\* lines 36-41: the diff has been parsed into patches
ApplyBegin(patches, dryRun, ctxDone) ==
    /\ ad.pc = "idle"
    /\ ad' = [IdleAd EXCEPT !.pc = "loop", !.patches = patches, !.dryRun = dryRun,
                            !.ctxDone = ctxDone, !.i = 1]
    /\ UNCHANGED <<dirent, inodes>>
    /\ AdUnchanged

AdFail(e) == ad' = [ad EXCEPT !.pc = "return", !.errRet = e]

\* lines 44-96: one patch is validated, its target read and the patch applied
ApplyPatchCheck ==
    /\ ad.pc = "loop"
    /\ IF ad.i > Len(ad.patches) THEN ad' = [ad EXCEPT !.pc = "return", !.errRet = ""]
       ELSE IF ad.ctxDone THEN AdFail("cancelled")
       ELSE
       LET patch == ad.patches[ad.i]
           r == sanitizePath(dirent, cfg, patch.FilePath)
           st == Stat(dirent, r.abs)
           original == IF st.err = "" THEN inodes[st.node.ino].c ELSE <<>>
       IN  IF ~r.ok THEN AdFail("path")
           ELSE IF isBlockedExtension(cfg, r.abs) THEN AdFail("blocked")
           ELSE IF patch.IsNewFile /\ st.err = "other" THEN AdFail("stat")
           ELSE IF ~patch.IsNewFile /\ st.err = "notexist" THEN AdFail("missing")
           ELSE IF ~patch.IsNewFile /\ st.err # "" THEN AdFail("stat")
           ELSE IF st.err = "" /\ st.node.k # "file" THEN AdFail("read")
           ELSE IF ad.dryRun
                THEN ad' = [ad EXCEPT !.appliedFiles = Append(@, patch.FilePath),
                                      !.i = @ + 1]
           ELSE ad' = [ad EXCEPT !.pc = IF st.err = "" THEN "backup" ELSE "open",
                                 !.absPath = r.abs, !.statOk = (st.err = ""),
                                 !.errLoop = "",
                                 !.patched = applyPatchToContent(original, patch),
                                 !.pre = ContentAt(dirent, inodes, r.abs),
                                 !.moved = FALSE, !.off = 0]
    /\ UNCHANGED <<dirent, inodes>>
    /\ AdUnchanged

\* lines 98-110: the target is renamed to its backup and the rollback deferred;
\* the closure keeps the variable err of this iteration
ApplyBackup ==
    LET r == SysRename(dirent, inodes, AdOpen, ad.absPath, backupPathOf(ad.absPath))
    IN  /\ ad.pc = "backup"
        /\ \E fail \in BOOLEAN :
              IF fail \/ r.err # ""
              THEN AdFail("backup") /\ UNCHANGED <<dirent, inodes>>
              ELSE /\ dirent' = r.fs
                   /\ inodes' = r.ino
                   /\ ad' = [ad EXCEPT !.pc = "open", !.moved = TRUE,
                                !.defers = Append(@, [backupPath |-> backupPathOf(ad.absPath),
                                                      absPath |-> ad.absPath,
                                                      err |-> ad.errLoop])]
        /\ AdUnchanged

\* line 113: os.WriteFile opens the target with O_CREATE|O_TRUNC (it may fail)
ApplyOpen ==
    LET r == SysCreate(dirent, inodes, AdOpen, ad.absPath)
    IN  /\ ad.pc = "open"
        /\ \E fail \in BOOLEAN :
              IF fail \/ r.err # ""
              THEN AdFail("write") /\ UNCHANGED <<dirent, inodes>>
              ELSE /\ dirent' = r.fs
                   /\ inodes' = r.ino
                   /\ ad' = [ad EXCEPT !.fd = r.fd,
                                !.pc = IF Len(ad.patched) = 0 THEN "commit" ELSE "write"]
        /\ AdUnchanged

\* line 113: os.WriteFile writes the patched content
ApplyWrite ==
    /\ ad.pc = "write"
    /\ inodes' = SysWriteByte(inodes, ad.fd, ad.off, ad.patched[ad.off + 1])
    /\ ad' = [ad EXCEPT !.off = @ + 1,
                        !.pc = IF ad.off + 1 = Len(ad.patched) THEN "commit" ELSE "write"]
    /\ UNCHANGED dirent
    /\ AdUnchanged

\* lines 113-115: the write fails part of the way; os.WriteFile closes the file
ApplyWriteFails ==
    /\ ad.pc = "write"
    /\ ad' = [ad EXCEPT !.pc = "return", !.errRet = "write", !.fd = 0]
    /\ inodes' = Collect(dirent, inodes, {})
    /\ UNCHANGED dirent
    /\ AdUnchanged

\* lines 117-122: the backup is removed and the path recorded
ApplyCommit ==
    LET r == IF ad.statOk THEN SysRemove(dirent, inodes, {}, backupPathOf(ad.absPath))
             ELSE SysRes("", dirent, inodes, 0)
    IN  /\ ad.pc = "commit"
        /\ dirent' = r.fs
        /\ inodes' = Collect(r.fs, r.ino, {})
        /\ ad' = [ad EXCEPT !.pc = "loop", !.fd = 0, !.i = @ + 1,
                            !.appliedFiles = Append(@, ad.patches[ad.i].FilePath)]
        /\ AdUnchanged

\* lines 104-109: the deferred closures run last in, first out; each renames its
\* backup over the target if the err it captured is set
RECURSIVE RunDefers(_, _, _)
RunDefers(fs, ino, defers) ==
    IF defers = <<>> THEN SysRes("", fs, ino, 0)
    ELSE LET d == Last(defers)
             r == IF d.err # "" THEN SysRename(fs, ino, {}, d.backupPath, d.absPath)
                  ELSE SysRes("", fs, ino, 0)
         IN  RunDefers(r.fs, r.ino, Front(defers))

\* the function returns: the deferred calls run
ApplyReturn ==
    LET r == RunDefers(dirent, inodes, ad.defers)
    IN  /\ ad.pc = "return"
        /\ dirent' = r.fs
        /\ inodes' = r.ino
        /\ ad' = [ad EXCEPT !.pc = "done", !.defers = <<>>]
        /\ AdUnchanged

-----------------------------------------------------------------------------
(* SpecDiff: diffs applied to a workspace that holds the file f *)

NameG == <<"g">>
PathG == Path(FALSE, <<NameG>>)

\* f holds the lines 1, 2, 3
DiffOld == <<1, NL, 2, NL, 3, NL>>

\* --- a/f +++ b/f @@ -1,3 +1,3 @@ with line 2 replaced by 7
PatchModF ==
    DiffPatch(PathF, <<Hunk(1, 3, 1, 3, <<Line(" ", <<1>>), Line("-", <<2>>),
                                          Line("+", <<7>>), Line(" ", <<3>>)>>)>>)
\* a new file g of one line
PatchNewG == DiffPatch(PathG, <<Hunk(0, 0, 1, 1, <<Line("+", <<5>>)>>)>>)
\* a line added to f, no line deleted
PatchAddF == DiffPatch(PathF, <<Hunk(1, 1, 1, 2, <<Line(" ", <<1>>), Line("+", <<8>>)>>)>>)
\* a modification of g
PatchModG == DiffPatch(PathG, <<Hunk(1, 1, 1, 1, <<Line("-", <<5>>), Line("+", <<6>>)>>)>>)
\* a file outside the root, and one with a blocked extension
PatchEscape ==
    DiffPatch(Path(FALSE, <<DotDot, <<"o">>, NameF>>), <<Hunk(0, 0, 1, 1, <<Line("+", <<5>>)>>)>>)
PatchBlocked ==
    DiffPatch(Path(FALSE, <<NameF \o ExtE>>), <<Hunk(0, 0, 1, 1, <<Line("+", <<5>>)>>)>>)

DiffInputs == {<<>>, <<PatchModF>>, <<PatchNewG>>, <<PatchAddF>>, <<PatchModG>>,
               <<PatchModF, PatchNewG>>, <<PatchNewG, PatchModG>>,
               <<PatchModF, PatchEscape>>, <<PatchBlocked>>}

InitDiff ==
    /\ cfg = DefaultCfg
    /\ allowedCommands = NewAllowedCommands(<<>>)
    /\ dirent = Tree({<<Root, DirNode>>, <<Outside, DirNode>>, <<AbsF, FileNode(1)>>})
    /\ inodes = (1 :> [c |-> DiffOld, d |-> DiffOld])
    /\ sp = NoCall
    /\ wr = NoWrites /\ rd = NoCall /\ ad = IdleAd /\ ex = IdleEx /\ child = IdleChild
    /\ q = NoCall /\ op = NoCall /\ srv = NoServer /\ rl = NoReloader

ApplyUnifiedDiffCall ==
    \E patches \in DiffInputs, dryRun \in BOOLEAN, ctxDone \in BOOLEAN :
        ApplyBegin(patches, dryRun, ctxDone)

NextDiff ==
    \/ ApplyUnifiedDiffCall
    \/ ApplyPatchCheck
    \/ ApplyBackup
    \/ ApplyOpen
    \/ ApplyWrite
    \/ ApplyWriteFails
    \/ ApplyCommit
    \/ ApplyReturn

SpecDiff == InitDiff /\ [][NextDiff]_vars

\* C2: when ApplyUnifiedDiff returns the failure of the write that followed the
\* move of the target to its backup, the target holds its content of before.
C2_RollbackRestores ==
    (ad.pc = "done" /\ ad.errRet = "write" /\ ad.moved)
        => ContentAt(dirent, inodes, ad.absPath) = ad.pre

-----------------------------------------------------------------------------
(* SpecDry: a diff is tried with dryRun and then applied for real *)

\* the caller of a dry run that has returned keeps its result in op and calls
\* ApplyUnifiedDiff again with the same diff and dryRun = false
ApplyForReal ==
    /\ ad.pc = "done" /\ ad.dryRun
    /\ op.pc = "idle"
    /\ op' = [pc |-> "done", name |-> "ApplyUnifiedDiff", patches |-> ad.patches,
              appliedFiles |-> ad.appliedFiles, err |-> ad.errRet]
    /\ ad' = [IdleAd EXCEPT !.pc = "loop", !.patches = ad.patches, !.dryRun = FALSE,
                            !.ctxDone = ad.ctxDone, !.i = 1]
    /\ UNCHANGED <<cfg, allowedCommands, dirent, inodes, sp, wr, rd, ex, child, q, srv, rl>>

NextDry == NextDiff \/ ApplyForReal

SpecDry == InitDiff /\ [][NextDry]_vars

\* the dry run of the last call has returned and so has the real run of the same
\* diff, which met no failure of the disk
DryThenReal ==
    /\ op.pc = "done" /\ op.name = "ApplyUnifiedDiff"
    /\ ad.pc = "done" /\ ~ad.dryRun /\ ad.patches = op.patches
    /\ ad.errRet \notin {"write", "backup"}

\* C15: a dry run fails for exactly the diffs for which the run for real fails
\* validation: whenever both have been made of one diff in one state of the
\* filesystem, either both returned an error or neither did.
C15_DryRunExact ==
    DryThenReal => ((op.err # "") <=> (ad.errRet # ""))

\* while a dry run is in progress nothing in the filesystem changes
C15_DryRunChangesNothing ==
    [][(ad.pc # "idle" /\ ad.dryRun /\ ad'.dryRun) =>
        (dirent' = dirent /\ inodes' = inodes)]_vars

\* a dry run returns the paths of the patches it passed, in the order of the diff
C15_DryRunPaths ==
    (ad.pc = "done" /\ ad.dryRun) =>
        /\ Len(ad.appliedFiles) <= Len(ad.patches)
        /\ \A i \in 1..Len(ad.appliedFiles) : ad.appliedFiles[i] = ad.patches[i].FilePath
        /\ ad.errRet = "" => Len(ad.appliedFiles) = Len(ad.patches)

-----------------------------------------------------------------------------
(* The command whitelist: isAllowedCommand *)

\* the allowed entry matches the command at a word boundary: the command is the
\* entry, or the entry is followed in it by a space or a tab
AtBoundary(cmd, allowed) ==
    Len(cmd) = Len(allowed) \/ cmd[Len(allowed) + 1] \in {" ", "\t"}

\* isAllowedCommand without the test of the character after the entry
isAllowedCommandAnyPrefix(ac, cmdIn) ==
    LET cmd == TrimSpace(cmdIn) IN
    IF cmd = <<>> THEN FALSE
    ELSE \E i \in 1..Len(ac) :
            LET allowed == TrimSpace(ac[i]) IN
            /\ allowed # <<>>
            /\ (allowed = FirstField(cmd) \/ HasPrefix(cmd, allowed))

isAllowedCommand(ac, cmdIn) ==
    LET cmd == TrimSpace(cmdIn) IN
    IF cmd = <<>> THEN FALSE
    ELSE LET baseCmd == FirstField(cmd) IN
         \E i \in 1..Len(ac) :
            LET allowed == TrimSpace(ac[i]) IN
            /\ allowed # <<>>
            /\ \/ allowed = baseCmd
               \/ HasPrefix(cmd, allowed) /\ AtBoundary(cmd, allowed)

-----------------------------------------------------------------------------
(* SpecAllow: isAllowedCommand asked about every command string of the model, *)
(* under every whitelist of the model                                         *)

CmdChars == {"g", "t", " ", "\t", "\n"}

\* the whitelist entries: a bare name, a name with a sub-command (as "go test"
\* in the default configuration), an entry with white space around it, an
\* empty entry
AllowEntries == {<<"g">>, <<"g", " ", "t">>, <<" ", "t", " ">>, <<>>}

Whitelists == SeqsUpTo(AllowEntries, 2)

InitAllow ==
    /\ cfg = DefaultCfg
    /\ allowedCommands \in {NewAllowedCommands(c) : c \in Whitelists}
    /\ dirent = Tree({<<Root, DirNode>>})
    /\ inodes = EmptyInodes(dirent)
    /\ sp = NoCall
    /\ wr = NoWrites /\ rd = NoCall /\ ad = IdleAd /\ ex = IdleEx /\ child = IdleChild
    /\ q = NoCall /\ op = NoCall /\ srv = NoServer /\ rl = NoReloader

IsAllowedCommandCall ==
    /\ q.pc = "idle"
    /\ \E s \in SeqsUpTo(CmdChars, MaxCmdLen) :
          q' = [pc |-> "done", cmd |-> s, res |-> isAllowedCommand(allowedCommands, s)]
    /\ UNCHANGED <<cfg, allowedCommands, dirent, inodes, sp, wr, rd, ad, ex, child, op, srv, rl>>

\* the caller takes the answer
IsAllowedCommandReturn ==
    /\ q.pc = "done"
    /\ q' = NoCall
    /\ UNCHANGED <<cfg, allowedCommands, dirent, inodes, sp, wr, rd, ad, ex, child, op, srv, rl>>

NextAllow == IsAllowedCommandCall \/ IsAllowedCommandReturn

SpecAllow == InitAllow /\ [][NextAllow]_vars

\* s holds nothing but white space
Blank(s) == \A i \in 1..Len(s) : IsSpace(s[i])

\* s without the white space before its first and after its last other character
Stripped(s) ==
    IF Blank(s) THEN <<>>
    ELSE LET first == CHOOSE i \in 1..Len(s) :
                        ~IsSpace(s[i]) /\ \A k \in 1..(i - 1) : IsSpace(s[k])
             last  == CHOOSE j \in 1..Len(s) :
                        ~IsSpace(s[j]) /\ \A k \in (j + 1)..Len(s) : IsSpace(s[k])
         IN SubSeq(s, first, last)

\* the characters of t before its first white space
LeadingWord(t) ==
    LET k == CHOOSE n \in 0..Len(t) :
                /\ \A m \in 1..n : ~IsSpace(t[m])
                /\ n = Len(t) \/ IsSpace(t[n + 1])
    IN SubSeq(t, 1, k)

\* entry e authorizes the stripped command t
Authorizes(e, t) ==
    /\ e # <<>>
    /\ \/ e = LeadingWord(t)
       \/ /\ HasPrefix(t, e)
          /\ Len(t) = Len(e) \/ t[Len(e) + 1] = " " \/ t[Len(e) + 1] = "\t"

\* C7 (as the code has it): with s and the entries stripped of the white space
\* around them, isAllowedCommand(s) is true exactly when s is not empty and some
\* non-empty entry is the leading word of s, or is a prefix of s that ends s or
\* is followed in s by a space or a tab.  An entry g authorizes "g t" but not
\* "gt", and an empty or blank s is always rejected.
C7_WordBoundary ==
    q.pc = "done" =>
        (q.res <=> /\ ~Blank(q.cmd)
                   /\ \E i \in 1..Len(allowedCommands) :
                         Authorizes(Stripped(allowedCommands[i]), Stripped(q.cmd)))

\* C7 as stated: true exactly when some entry equals s, or s starts with it and
\* the character right after it is a space or a tab.
C7_AsStated ==
    q.pc = "done" =>
        (q.res <=> \E i \in 1..Len(allowedCommands) :
                      LET e == allowedCommands[i] IN
                      \/ e = q.cmd
                      \/ /\ HasPrefix(q.cmd, e) /\ Len(q.cmd) > Len(e)
                         /\ q.cmd[Len(e) + 1] \in {" ", "\t"})

\* the entry g was asked about "gt", which shares its prefix, and refused it
C7_Witness_SharedPrefix ==
    /\ q.pc = "done" /\ ~q.res
    /\ allowedCommands = << <<"g">> >>
    /\ q.cmd = <<"g", "t">>

-----------------------------------------------------------------------------
(* Output truncation *)

\* "\n... [TRUNCATED] ...\n"
marker == <<10, 46, 46, 46, 32, 91, 84, 82, 85, 78, 67, 65, 84, 69, 68, 93, 32, 46, 46, 46, 10>>

maxOutLen == 2000

\* a byte of a rune beyond unicode.MaxASCII, or a byte that decodes to no rune
\* (utf8.RuneError, which is beyond it as well)
NonASCII(b) == b > 127

RECURSIVE TrimRightNonASCII(_)
TrimRightNonASCII(s) ==
    IF s # <<>> /\ NonASCII(s[Len(s)])
    THEN TrimRightNonASCII(SubSeq(s, 1, Len(s) - 1)) ELSE s

RECURSIVE TrimLeftNonASCII(_)
TrimLeftNonASCII(s) ==
    IF s # <<>> /\ NonASCII(Head(s)) THEN TrimLeftNonASCII(Tail(s)) ELSE s

\* TruncateOutputString that gives the head and the tail half of maxLen each,
\* leaving no room for the marker
TruncateOutputStringNoRoom(s, maxLen) ==
    IF maxLen <= 0 \/ Len(s) <= maxLen THEN s
    ELSE IF maxLen <= Len(marker) THEN SubSeq(marker, 1, maxLen)
    ELSE LET half == maxLen \div 2
         IN  TrimRightNonASCII(SubSeq(s, 1, half)) \o marker
                \o TrimLeftNonASCII(SubSeq(s, Len(s) - half + 1, Len(s)))

TruncateOutputString(s, maxLen) ==
    IF maxLen <= 0 \/ Len(s) <= maxLen THEN s
    ELSE LET markerLen == Len(marker) IN
         IF maxLen <= markerLen THEN SubSeq(marker, 1, maxLen)
         ELSE LET avail  == maxLen - markerLen
                  half   == avail \div 2
                  head   == TrimRightNonASCII(SubSeq(s, 1, half))
                  tail   == TrimLeftNonASCII(SubSeq(s, Len(s) - half + 1, Len(s)))
                  result == head \o marker \o tail
                  excess == Len(result) - maxLen
              IN IF Len(result) > maxLen
                 THEN IF Len(tail) > excess
                      THEN head \o marker \o SubSeq(tail, 1, Len(tail) - excess)
                      ELSE SubSeq(head, 1, Len(head) - (excess - Len(tail))) \o marker \o tail
                 ELSE result

-----------------------------------------------------------------------------
(* Execute and SecureExec, step by step, with the subprocess and the timer *)

\* the most bytes a subprocess writes
MaxOutLen == 2

\* Execute, step 2
EffectiveTimeout(timeoutSeconds, buildTimeout) ==
    IF timeoutSeconds <= 0 THEN buildTimeout ELSE timeoutSeconds

\* context.WithTimeout over the caller's context: done at once when the caller's
\* is, or when the duration is not positive
WithTimeout(ctxDone, timeout) ==
    IF ctxDone THEN "canceled" ELSE IF timeout <= 0 THEN "deadline" ELSE ""

\* the result with a non-zero exit taken for a failure to run
ClassifyExitAsFailure(stdout, stderr, runErr, ctxErr, code) ==
    IF runErr # ""
    THEN IF ctxErr = "deadline" THEN ExecRes(stdout, stderr, -1, "timeout")
         ELSE ExecRes(stdout, stderr, -1, "failed")
    ELSE ExecRes(stdout, stderr, code, "")

\* Execute, step 7 and 8: the result, from what Run returned and the state of
\* the context
Classify(stdout, stderr, runErr, ctxErr, code) ==
    IF runErr # ""
    THEN IF ctxErr = "deadline" THEN ExecRes(stdout, stderr, -1, "timeout")
         ELSE IF runErr = "exit" THEN ExecRes(stdout, stderr, code, "exited")
         ELSE ExecRes(stdout, stderr, -1, "failed")
    ELSE ExecRes(stdout, stderr, code, "")

\* SecureExec that returns what Execute returned
Untruncated(r) == r

\* SecureExec, and the workspace.secure_exec tool, after Execute has returned
Truncated(r) ==
    [r EXCEPT !.stdout = TruncateOutputString(r.stdout, maxOutLen),
              !.stderr = TruncateOutputString(r.stderr, maxOutLen)]

Finish(secure, r) == IF secure THEN Truncated(r) ELSE r

\* Execute (secure = FALSE) or SecureExec (secure = TRUE) is called: the
\* whitelist check, the timeout, the context
ExecuteBegin(secure, cmd, args, timeoutSeconds, ctxDone) ==
    /\ ex.pc = "idle"
    /\ LET timeout == EffectiveTimeout(timeoutSeconds, cfg.BuildTimeout)
           call == [IdleEx EXCEPT !.secure = secure, !.cmd = cmd, !.args = args,
                                  !.timeoutSeconds = timeoutSeconds]
       IN IF ~isAllowedCommand(allowedCommands, cmd)
          THEN ex' = [call EXCEPT !.pc = "done",
                        !.res = Finish(secure, ExecRes(<<>>, <<>>, -1, "notallowed"))]
          ELSE ex' = [call EXCEPT !.pc = "run", !.timeout = timeout,
                        !.ctxErr = WithTimeout(ctxDone, timeout)]
    /\ UNCHANGED <<cfg, allowedCommands, dirent, inodes, sp, wr, rd, ad, child, q, op, srv, rl>>

\* Run starts the command: the executable may be missing; a context that is done
\* starts nothing
ExecStart ==
    /\ ex.pc = "run"
    /\ \E found \in BOOLEAN :
          IF ~found
          THEN /\ ex' = [ex EXCEPT !.pc = "classify", !.runErr = "notfound", !.code = -1]
               /\ UNCHANGED child
          ELSE IF ex.ctxErr # ""
          THEN /\ ex' = [ex EXCEPT !.pc = "classify", !.runErr = ex.ctxErr, !.code = -1]
               /\ UNCHANGED child
          ELSE /\ ex' = [ex EXCEPT !.pc = "wait"]
               /\ child' = [IdleChild EXCEPT !.pc = "running"]
    /\ UNCHANGED <<cfg, allowedCommands, dirent, inodes, sp, wr, rd, ad, q, op, srv, rl>>

\* the subprocess starts a process of its own (as go test and go run do), which
\* inherits its stdout and stderr
ChildForks ==
    /\ child.pc = "running"
    /\ ~child.heirs
    /\ child' = [child EXCEPT !.heirs = TRUE]
    /\ UNCHANGED <<cfg, allowedCommands, dirent, inodes, sp, wr, rd, ad, ex, q, op, srv, rl>>

\* the descendants of the subprocess exit, or close its pipes
HeirsExit ==
    /\ child.heirs
    /\ child' = [child EXCEPT !.heirs = FALSE]
    /\ UNCHANGED <<cfg, allowedCommands, dirent, inodes, sp, wr, rd, ad, ex, q, op, srv, rl>>

\* the subprocess, or a descendant of it, writes a byte to stdout or to stderr
ChildWrite ==
    /\ child.pc = "running" \/ child.heirs
    /\ Len(child.out) + Len(child.err) < MaxOutLen
    /\ \/ child' = [child EXCEPT !.out = Append(@, 120)]
       \/ child' = [child EXCEPT !.err = Append(@, 120)]
    /\ UNCHANGED <<cfg, allowedCommands, dirent, inodes, sp, wr, rd, ad, ex, q, op, srv, rl>>

\* the subprocess exits by itself
ChildExit ==
    /\ child.pc = "running"
    /\ \E n \in {0, 1} : child' = [child EXCEPT !.pc = "exited", !.code = n]
    /\ UNCHANGED <<cfg, allowedCommands, dirent, inodes, sp, wr, rd, ad, ex, q, op, srv, rl>>

\* a second passes; the timer lets none pass beyond the deadline before it fires
Tick ==
    /\ ex.pc \in {"wait", "classify"}
    /\ ex.clock < MaxClock
    /\ ex.ctxErr = "" => ex.clock < ex.timeout
    /\ ex' = [ex EXCEPT !.clock = @ + 1]
    /\ UNCHANGED <<cfg, allowedCommands, dirent, inodes, sp, wr, rd, ad, child, q, op, srv, rl>>

\* the deadline of the context passes: the context is done and a subprocess
\* that still runs is killed
DeadlineFires ==
    /\ ex.pc \in {"wait", "classify"}
    /\ ex.ctxErr = ""
    /\ ex.clock >= ex.timeout
    /\ ex' = [ex EXCEPT !.ctxErr = "deadline"]
    /\ child' = IF child.pc = "running"
                THEN [child EXCEPT !.pc = "killed", !.code = -1] ELSE child
    /\ UNCHANGED <<cfg, allowedCommands, dirent, inodes, sp, wr, rd, ad, q, op, srv, rl>>

\* Run returns once the subprocess is gone and the copying of its output is
\* over, which is when no process holds the pipes any more (stdout and stderr
\* are buffers, not files, and no WaitDelay is set); the buffers hold what was
\* written
ExecRunReturns ==
    /\ ex.pc = "wait"
    /\ child.pc \in {"exited", "killed"}
    /\ ~child.heirs
    /\ ex' = [ex EXCEPT !.pc = "classify",
                        !.stdout = child.out, !.stderr = child.err,
                        !.runErr = IF child.code = 0 THEN "" ELSE "exit",
                        !.code = child.code]
    /\ UNCHANGED <<cfg, allowedCommands, dirent, inodes, sp, wr, rd, ad, child, q, op, srv, rl>>

\* Execute returns its result, which SecureExec then truncates
ExecClassify ==
    /\ ex.pc = "classify"
    /\ ex' = [ex EXCEPT !.pc = "done",
                !.res = Finish(ex.secure,
                               Classify(ex.stdout, ex.stderr, ex.runErr, ex.ctxErr, ex.code))]
    /\ UNCHANGED <<cfg, allowedCommands, dirent, inodes, sp, wr, rd, ad, child, q, op, srv, rl>>

-----------------------------------------------------------------------------
(* SpecExec: one call of Execute or SecureExec *)

\* the command names of a call: an allowed name, a name that shares its prefix,
\* the name with its sub-command, the same followed by a newline, another name
ExecCmds == {<<"g">>, <<"g", "t">>, <<"g", " ", "t">>, <<"g", " ", "t", "\n">>, <<"t">>}

ExecArgs == {<<>>, << <<"t">> >>}

\* the caller's timeoutSeconds
ExecTimeouts == {0, 1, MaxClock}

\* the configured default timeouts: none, and one between the caller's
BuildTimeouts == {0, 2}

ExecWhitelists == { <<>>, << <<"g">> >>, << <<"g", " ", "t">> >> }

InitExec ==
    /\ cfg \in {Cfg(<<>>, <<ExtExe>>, 2, t) : t \in BuildTimeouts}
    /\ allowedCommands \in {NewAllowedCommands(c) : c \in ExecWhitelists}
    /\ dirent = Tree({<<Root, DirNode>>})
    /\ inodes = EmptyInodes(dirent)
    /\ sp = NoCall
    /\ wr = NoWrites /\ rd = NoCall /\ ad = IdleAd /\ ex = IdleEx /\ child = IdleChild
    /\ q = NoCall /\ op = NoCall /\ srv = NoServer /\ rl = NoReloader

ExecuteCall ==
    \E secure \in BOOLEAN, cmd \in ExecCmds, args \in ExecArgs,
       timeoutSeconds \in ExecTimeouts, ctxDone \in BOOLEAN :
        ExecuteBegin(secure, cmd, args, timeoutSeconds, ctxDone)

NextExec ==
    \/ ExecuteCall
    \/ ExecStart
    \/ ChildForks
    \/ HeirsExit
    \/ ChildWrite
    \/ ChildExit
    \/ Tick
    \/ DeadlineFires
    \/ ExecRunReturns
    \/ ExecClassify

SpecExec == InitExec /\ [][NextExec]_vars

\* time passes and the timer fires; the program takes its steps; the subprocess
\* owes nothing
SpecExecFair ==
    /\ SpecExec
    /\ WF_vars(Tick) /\ WF_vars(DeadlineFires)
    /\ WF_vars(ExecStart) /\ WF_vars(ExecRunReturns) /\ WF_vars(ExecClassify)

\* secureExec's fullCmd
FullCmd(cmd, args) ==
    IF Len(args) > 0 THEN cmd \o <<" ">> \o Concat([i \in 1..Len(args) |->
                              IF i = 1 THEN args[i] ELSE <<" ">> \o args[i]])
    ELSE cmd

\* C8: a subprocess exists only for a call whose command name and whose joined
\* command and arguments both pass the whitelist, and a call that fails either
\* check returns "command not allowed".
C8_BothChecks ==
    LET both == /\ isAllowedCommand(allowedCommands, ex.cmd)
                /\ isAllowedCommand(allowedCommands, FullCmd(ex.cmd, ex.args))
    IN /\ child.pc # "none" => both
       /\ (ex.pc = "done" /\ ~both) => ex.res.err = "notallowed"

\* the caller's timeout if positive, otherwise the configured default
C9_Effective ==
    IF ex.timeoutSeconds > 0 THEN ex.timeoutSeconds ELSE cfg.BuildTimeout

\* a subprocess is killed only when the effective timeout has elapsed, and the call
\* that had it killed returns the timeout error, exit code -1 and what the
\* subprocess had written
C9_TimeoutResult ==
    /\ child.pc = "killed" => ex.clock >= C9_Effective
    /\ (ex.pc = "done" /\ child.pc = "killed") =>
          /\ ex.res.err = "timeout" /\ ex.res.exitCode = -1
          /\ ex.res.stdout = child.out /\ ex.res.stderr = child.err

\* C9: every call of a whitelisted command returns; a subprocess that still runs
\* when the effective timeout elapses is killed, and the call returns the
\* timeout error with the output captured until then.
C9_AlwaysReturns ==
    /\ []C9_TimeoutResult
    /\ (ex.pc = "run") ~> (ex.pc = "done")
    /\ (child.pc = "running" /\ ex.clock >= C9_Effective) ~> (child.pc # "running")

\* the subprocess exited by itself with a code other than zero, and the deadline
\* had not passed when Execute looked at its context
C10_ExitedNonZero ==
    /\ ex.pc = "done"
    /\ child.pc = "exited" /\ child.code # 0
    /\ ex.ctxErr # "deadline"

-----------------------------------------------------------------------------
(* SpecExecFlood: one call of Execute, SecureExec or the secure_exec tool of a *)
(* command that may write more than the output limit                          *)

\* the bytes of one flood of output
FloodLen == 2001

Flood == [i \in 1..FloodLen |-> 120]

\* the subprocess floods its stdout or its stderr
ChildFlood ==
    /\ child.pc = "running"
    /\ \/ child.out = <<>> /\ child' = [child EXCEPT !.out = Flood]
       \/ child.err = <<>> /\ child' = [child EXCEPT !.err = Flood]
    /\ UNCHANGED <<cfg, allowedCommands, dirent, inodes, sp, wr, rd, ad, ex, q, op, srv, rl>>

InitExecFlood ==
    /\ cfg = DefaultCfg
    /\ allowedCommands = NewAllowedCommands(<<>>)
    /\ dirent = Tree({<<Root, DirNode>>})
    /\ inodes = EmptyInodes(dirent)
    /\ sp = NoCall
    /\ wr = NoWrites /\ rd = NoCall /\ ad = IdleAd /\ ex = IdleEx /\ child = IdleChild
    /\ q = NoCall /\ op = NoCall /\ srv = NoServer /\ rl = NoReloader

ExecuteCallFlood ==
    \E secure \in BOOLEAN, cmd \in {<<"g">>, <<"t">>}, timeoutSeconds \in {0, 1},
       ctxDone \in BOOLEAN :
        ExecuteBegin(secure, cmd, <<>>, timeoutSeconds, ctxDone)

NextExecFlood ==
    \/ ExecuteCallFlood
    \/ ExecStart
    \/ ChildFlood
    \/ ChildExit
    \/ Tick
    \/ DeadlineFires
    \/ ExecRunReturns
    \/ ExecClassify

SpecExecFlood == InitExecFlood /\ [][NextExecFlood]_vars

\* C11: whatever way SecureExec (and the tool, which does the same) returns, the
\* stdout and the stderr it returns are at most 2000 bytes long each.
C11_OutputBounded ==
    (ex.pc = "done" /\ ex.secure) =>
        /\ Len(ex.res.stdout) <= 2000
        /\ Len(ex.res.stderr) <= 2000

\* the subprocess wrote more than 2000 bytes to each stream, was killed at the
\* deadline, and SecureExec returned less
C11_Witness_FloodCut ==
    /\ ex.pc = "done" /\ ex.secure /\ ex.res.err = "timeout"
    /\ Len(child.out) > 2000 /\ Len(child.err) > 2000
    /\ Len(ex.res.stdout) <= 2000 /\ ex.res.stdout # child.out

-----------------------------------------------------------------------------
(* SpecTrunc: TruncateOutputString on strings around the length of the marker *)

\* the longest string truncated
MaxTruncLen == 26

\* the string of length n whose bytes all differ, those at the places in high
\* being beyond ASCII
TruncString(n, high) == [i \in 1..n |-> IF i \in high THEN 200 + i ELSE 32 + i]

\* the strings: every length, with any of the two bytes at each end beyond ASCII
TruncInputs ==
    {TruncString(n, high \cap (1..n)) :
        n \in 0..MaxTruncLen, high \in SUBSET {1, 2, MaxTruncLen - 3, MaxTruncLen - 2,
                                               MaxTruncLen - 1, MaxTruncLen}}

InitTrunc ==
    /\ cfg = DefaultCfg
    /\ allowedCommands = NewAllowedCommands(<<>>)
    /\ dirent = Tree({<<Root, DirNode>>})
    /\ inodes = EmptyInodes(dirent)
    /\ sp = NoCall
    /\ wr = NoWrites /\ rd = NoCall /\ ad = IdleAd /\ ex = IdleEx /\ child = IdleChild
    /\ q = NoCall /\ op = NoCall /\ srv = NoServer /\ rl = NoReloader

TruncateOutputStringCall ==
    /\ op.pc = "idle"
    /\ \E s \in TruncInputs, maxLen \in (-1)..(MaxTruncLen + 1) :
          op' = [pc |-> "done", name |-> "TruncateOutputString", s |-> s,
                 maxLen |-> maxLen, res |-> TruncateOutputString(s, maxLen)]
    /\ UNCHANGED <<cfg, allowedCommands, dirent, inodes, sp, wr, rd, ad, ex, child, q, srv, rl>>

\* the caller takes the result
OpReturn ==
    /\ op.pc = "done"
    /\ op' = NoCall
    /\ UNCHANGED <<cfg, allowedCommands, dirent, inodes, sp, wr, rd, ad, ex, child, q, srv, rl>>

NextTrunc == TruncateOutputStringCall \/ OpReturn

SpecTrunc == InitTrunc /\ [][NextTrunc]_vars

\* "\n... [TRUNCATED] ...\n", byte by byte
C12_Marker ==
    <<10>> \o <<46, 46, 46, 32>> \o <<91, 84, 82, 85, 78, 67, 65, 84, 69, 68, 93>>
           \o <<32, 46, 46, 46>> \o <<10>>

-----------------------------------------------------------------------------
(* SearchAndReplace *)

\* strings.Count that counts the occurrences that overlap as well
RECURSIVE CountOverlapping(_, _)
CountOverlapping(s, old) ==
    IF Len(s) < Len(old) THEN 0
    ELSE (IF HasPrefix(s, old) THEN 1 ELSE 0) + CountOverlapping(Tail(s), old)

\* strings.Count(s, old) for a non-empty old
RECURSIVE Count(_, _)
Count(s, old) ==
    IF Len(s) < Len(old) THEN 0
    ELSE IF HasPrefix(s, old)
         THEN 1 + Count(SubSeq(s, Len(old) + 1, Len(s)), old)
    ELSE Count(Tail(s), old)

\* strings.Replace(s, old, new, 1)
RECURSIVE ReplaceFirst(_, _, _)
ReplaceFirst(s, old, new) ==
    IF Len(s) < Len(old) THEN s
    ELSE IF HasPrefix(s, old) THEN new \o SubSeq(s, Len(old) + 1, Len(s))
    ELSE <<Head(s)>> \o ReplaceFirst(Tail(s), old, new)

\* strings.ReplaceAll(s, old, new) for a non-empty old
RECURSIVE ReplaceAll(_, _, _)
ReplaceAll(s, old, new) ==
    IF Len(s) < Len(old) THEN s
    ELSE IF HasPrefix(s, old)
         THEN new \o ReplaceAll(SubSeq(s, Len(old) + 1, Len(s)), old, new)
    ELSE <<Head(s)>> \o ReplaceAll(Tail(s), old, new)

\* os.WriteFile(name, data, 0644): open with O_WRONLY|O_CREATE|O_TRUNC, write,
\* close; the write fails after wfail bytes when 0 <= wfail < len(data)
OsWriteFile(fs, ino, comps, data, wfail) ==
    LET o == SysCreate(fs, ino, {}, comps)
        n == IF wfail >= 0 /\ wfail < Len(data) THEN wfail ELSE Len(data)
    IN  IF o.err # "" THEN o
        ELSE SysRes(IF n < Len(data) THEN "other" ELSE "", o.fs,
                    [o.ino EXCEPT ![o.fd].c = SubSeq(data, 1, n)], 0)

SRRes(n, e, fs, ino) == [actualOccurrences |-> n, err |-> e, fs |-> fs, ino |-> ino]

\* lines 184-189: r is what os.Rename(tmpPath, absPath) gave after the write w
SRRename(tmpPath, n, w, r, rfail) ==
    IF rfail \/ r.err # ""
    THEN SRRes(n, "rename", SysRemove(w.fs, w.ino, {}, tmpPath).fs,
               SysRemove(w.fs, w.ino, {}, tmpPath).ino)
    ELSE SRRes(n, "", r.fs, r.ino)

\* lines 180-184: w is what os.WriteFile(tmpPath, newContent) gave
SRWrite(absPath, tmpPath, n, w, rfail) ==
    IF w.err # "" THEN SRRes(n, "write", w.fs, w.ino)
    ELSE SRRename(tmpPath, n, w, SysRename(w.fs, w.ino, {}, tmpPath, absPath), rfail)

\* lines 158-181: content is what os.ReadFile(absPath) gave, Absent for an error
SRCount(fs, ino, absPath, content, old, new, expectedOccurrences, wfail, rfail) ==
    IF content = Absent THEN SRRes(0, "read", fs, ino)
    ELSE IF expectedOccurrences > 0 /\ Count(content, old) # expectedOccurrences
         THEN SRRes(Count(content, old), "mismatch", fs, ino)
    ELSE IF expectedOccurrences = 0 THEN SRRes(Count(content, old), "", fs, ino)
    ELSE SRWrite(absPath, tmpPathOf(absPath), Count(content, old),
                 OsWriteFile(fs, ino, tmpPathOf(absPath),
                             ReplaceAll(content, old, new), wfail),
                 rfail)

\* lines 149-158: san is what sanitizePath(path) gave
SRCheck(fs, ino, c, san, old, new, expectedOccurrences, wfail, rfail) ==
    IF ~san.ok THEN SRRes(0, "path", fs, ino)
    ELSE IF isBlockedExtension(c, san.abs) THEN SRRes(0, "blocked", fs, ino)
    ELSE SRCount(fs, ino, san.abs, ContentAt(fs, ino, san.abs), old, new,
                 expectedOccurrences, wfail, rfail)

\* SearchAndReplace: what it returns and the filesystem it leaves; wfail and
\* rfail are the failures of the write and of the rename
SearchAndReplace(fs, ino, c, path, old, new, expectedOccurrences, wfail, rfail) ==
    IF old = <<>> THEN SRRes(0, "invalid", fs, ino)
    ELSE IF expectedOccurrences < 0 THEN SRRes(0, "invalid", fs, ino)
    ELSE SRCheck(fs, ino, c, sanitizePath(fs, c, path), old, new,
                 expectedOccurrences, wfail, rfail)

-----------------------------------------------------------------------------
(* SpecReplace: one call of SearchAndReplace on a file of every content *)

\* the longest file searched
MaxContentLen == 3

\* the longest string searched for
MaxOldLen == 2

SRContents == SeqsUpTo({1, 2}, MaxContentLen)
SROlds == SeqsUpTo({1, 2}, MaxOldLen)
SRNews == {<<>>, <<3>>, <<1, 1>>}
SRPaths == {PathF, Path(FALSE, <<NameL>>), Path(FALSE, <<NameN>>),
            Path(FALSE, <<NameF \o ExtExe>>)}

\* what may go wrong: nothing, the rename, or the write before or after the
\* first byte
SRFaults == {[wfail |-> -1, rfail |-> FALSE], [wfail |-> -1, rfail |-> TRUE],
             [wfail |-> 0, rfail |-> FALSE], [wfail |-> 1, rfail |-> FALSE]}

\* the file f, a symlink l to it, a file f.e and, in some trees, a stray f.tmp
SRTrees ==
    { Tree({<<Root, DirNode>>, <<Outside, DirNode>>, <<AbsF, FileNode(1)>>,
            <<Append(Root, NameL), LinkNode(AbsF)>>,
            <<Append(Root, NameF \o ExtExe), FileNode(3)>>} \cup ts) :
        ts \in {{}, {<<tmpPathOf(AbsF), FileNode(2)>>}} }

InitReplace ==
    /\ cfg = DefaultCfg
    /\ allowedCommands = NewAllowedCommands(<<>>)
    /\ dirent \in SRTrees
    /\ \E content \in SRContents :
          inodes = [i \in Linked(dirent) |->
                       IF i = 1 THEN [c |-> content, d |-> content]
                       ELSE [c |-> StrayData, d |-> StrayData]]
    /\ sp = NoCall
    /\ wr = NoWrites /\ rd = NoCall /\ ad = IdleAd /\ ex = IdleEx /\ child = IdleChild
    /\ q = NoCall /\ op = NoCall /\ srv = NoServer /\ rl = NoReloader

SearchAndReplaceCall ==
    /\ op.pc = "idle"
    /\ \E path \in SRPaths, old \in SROlds, new \in SRNews,
          expectedOccurrences \in (-1)..MaxContentLen,
          fault \in SRFaults :
          LET r == SearchAndReplace(dirent, inodes, cfg, path, old, new,
                                    expectedOccurrences, fault.wfail, fault.rfail)
          IN  /\ op' = [pc |-> "done", name |-> "SearchAndReplace", path |-> path,
                        old |-> old, new |-> new,
                        expectedOccurrences |-> expectedOccurrences,
                        actualOccurrences |-> r.actualOccurrences, err |-> r.err]
              /\ dirent' = r.fs
              /\ inodes' = r.ino
    /\ UNCHANGED <<cfg, allowedCommands, sp, wr, rd, ad, ex, child, q, srv, rl>>

NextReplace == SearchAndReplaceCall

SpecReplace == InitReplace /\ [][NextReplace]_vars

\* the places where old occurs in s
OccurrencesOf(s, old) ==
    {i \in 1..(Len(s) - Len(old) + 1) : SubSeq(s, i, i + Len(old) - 1) = old}

\* the sets of occurrences of which no two overlap
NonOverlapping(s, old) ==
    {S \in SUBSET OccurrencesOf(s, old) :
        \A i \in S, j \in S : i < j => i + Len(old) <= j}

\* the number of non-overlapping occurrences of old in s: the most there are
OccurrenceCount(s, old) ==
    CHOOSE k \in 0..Len(s) :
        /\ \E S \in NonOverlapping(s, old) : Cardinality(S) = k
        /\ \A S \in NonOverlapping(s, old) : Cardinality(S) <= k

\* what a call on the path reads in the filesystem fs, ino: the content of the
\* file the path names (no file, a rejected one included, reads as Absent)
SRFileAt(fs, ino, san) ==
    IF san.ok /\ ~isBlockedExtension(cfg, san.abs)
    THEN ContentAt(fs, ino, san.abs) ELSE Absent
SRFileOf(path) == SRFileAt(dirent, inodes, sanitizePath(dirent, cfg, path))

\* the guards, of a call o with expected count e that found the file holding
\* file, in which old occurs k times, and left the filesystem the same or not
SRGuarded(o, e, file, k, same) ==
    /\ ~same => (file # Absent /\ e > 0 /\ e = k)
    /\ (o.old = <<>> \/ e < 0) => (o.err = "invalid" /\ same)
    /\ (o.old # <<>> /\ file # Absent /\ e > 0 /\ e # k) =>
          (o.err = "mismatch" /\ o.actualOccurrences = k /\ same)
    /\ (o.old # <<>> /\ file # Absent /\ e = 0) =>
          (o.err = "" /\ o.actualOccurrences = k /\ same)

SRGuardedFile(o, file, same) ==
    SRGuarded(o, o.expectedOccurrences, file, OccurrenceCount(file, o.old), same)

\* C13: SearchAndReplace changes the filesystem only when the expected count is
\* positive and equal to the number of non-overlapping occurrences of old.  An
\* empty old or a negative expected count is an invalid argument; on a readable
\* file, a positive expected count that differs from the actual one is a mismatch
\* and an expected count of 0 returns the actual count with no error; in all
\* these cases nothing in the filesystem changes.
C13_Guards ==
    [][(op.pc = "idle" /\ op'.pc = "done" /\ op'.name = "SearchAndReplace") =>
        SRGuardedFile(op', SRFileOf(op'.path), dirent' = dirent /\ inodes' = inodes)]_vars

\* old occurs twice in the file, overlapping: one occurrence was found where two
\* were expected, and the file is as it was
C13_Witness_Mismatch ==
    /\ op.pc = "done" /\ op.name = "SearchAndReplace" /\ op.err = "mismatch"
    /\ op.path = PathF /\ op.old = <<1, 1>> /\ op.expectedOccurrences = 2
    /\ op.actualOccurrences = 1
    /\ ContentAt(dirent, inodes, AbsF) = <<1, 1, 1>>

\* the occurrences replaced: going from the left, each one that does not overlap
\* one already taken
LeftmostOccurrences(s, old) ==
    LET G[i \in 0..Len(s)] ==
            IF i = 0 THEN {}
            ELSE IF i \in OccurrencesOf(s, old) /\ \A j \in G[i - 1] : j + Len(old) <= i
                 THEN G[i - 1] \cup {i}
            ELSE G[i - 1]
    IN  G[Len(s)]

\* s with new in the place of old at each of the places in S
Substituted(s, old, new, S) ==
    Concat([i \in 1..Len(s) |->
               IF i \in S THEN new
               ELSE IF \E j \in S : j < i /\ i < j + Len(old) THEN <<>>
               ELSE <<s[i]>>])

\* a call o that found the file holding file, expected as many occurrences as
\* there are and met no failure of the disk, left now in the file
SRReplaced(o, file, S, now) ==
    (/\ o.old # <<>> /\ o.expectedOccurrences > 0 /\ file # Absent
     /\ o.expectedOccurrences = OccurrenceCount(file, o.old)
     /\ o.err \notin {"write", "rename"}) =>
        /\ o.err = ""
        /\ o.actualOccurrences = o.expectedOccurrences
        /\ Cardinality(S) = o.actualOccurrences
        /\ now = Substituted(file, o.old, o.new, S)

SRReplacedFile(o, file, now) ==
    SRReplaced(o, file, LeftmostOccurrences(file, o.old), now)

\* C14: when the expected count is positive and equal to the number k of
\* non-overlapping occurrences of old, a call that meets no failure of the disk
\* returns k without error and leaves the file holding the old content with each
\* of the k occurrences, taken from the left, replaced by new and every other
\* byte as it was.
C14_ReplacesAll ==
    [][(op.pc = "idle" /\ op'.pc = "done" /\ op'.name = "SearchAndReplace") =>
        SRReplacedFile(op', SRFileOf(op'.path),
                       ContentAt(dirent', inodes', Join(Root, op'.path).comps))]_vars

\* both occurrences of 1 in 1 2 1 were replaced by 1 1
C14_Witness_TwoReplaced ==
    /\ op.pc = "done" /\ op.name = "SearchAndReplace" /\ op.err = ""
    /\ op.path = PathF /\ op.old = <<1>> /\ op.new = <<1, 1>>
    /\ op.expectedOccurrences = 2 /\ op.actualOccurrences = 2
    /\ ContentAt(dirent, inodes, AbsF) = <<1, 1, 2, 1, 1>>


-----------------------------------------------------------------------------
(* SpecPatch: applyPatchToContent on every small file and patch *)

\* the most lines of a file patched
MaxLines == 3

\* the most lines of a hunk
MaxHunkLines == 2

PatchTexts == {<<1>>, <<2>>}

\* the file of the given lines, its last line with or without its newline
FileOf(texts, nl) ==
    LET whole == Concat([i \in 1..Len(texts) |-> Append(texts[i], NL)])
    IN  IF nl THEN whole ELSE TrimSuffixNL(whole)

PatchOriginals ==
    {FileOf(texts, nl) : texts \in SeqsUpTo(PatchTexts, MaxLines), nl \in BOOLEAN}

PatchLines == {Line(type, text) : type \in {" ", "-", "+"}, text \in PatchTexts}

\* the lines of a hunk that stand for lines of the old file, and of the new one
OldSide(lines) == SelectSeq(lines, LAMBDA l : l.Type \in {" ", "-"})
NewSide(lines) == SelectSeq(lines, LAMBDA l : l.Type \in {" ", "+"})

\* a hunk as a diff tool writes its header: the counts are those of its lines
HunkAt(oldStart, lines) ==
    Hunk(oldStart, Len(OldSide(lines)), oldStart, Len(NewSide(lines)), lines)

\* the patches: one hunk, or two hunks of one line each, in the ascending order
\* of OldStart that normalizeHunks leaves
PatchInputs ==
    {<<HunkAt(a, ls)>> : a \in 0..MaxLines, ls \in SeqsUpTo(PatchLines, MaxHunkLines)}
    \cup {<<HunkAt(ab[1], <<l>>), HunkAt(ab[2], <<m>>)>> :
            ab \in {x \in (0..MaxLines) \X (0..MaxLines) : x[1] <= x[2]},
            l \in PatchLines, m \in PatchLines}

InitPatch ==
    /\ cfg = DefaultCfg
    /\ allowedCommands = NewAllowedCommands(<<>>)
    /\ dirent = Tree({<<Root, DirNode>>})
    /\ inodes = EmptyInodes(dirent)
    /\ sp = NoCall
    /\ wr = NoWrites /\ rd = NoCall /\ ad = IdleAd /\ ex = IdleEx /\ child = IdleChild
    /\ q = NoCall /\ op = NoCall /\ srv = NoServer /\ rl = NoReloader

ApplyPatchToContentCall ==
    /\ op.pc = "idle"
    /\ \E original \in PatchOriginals, hunks \in PatchInputs :
          op' = [pc |-> "done", name |-> "applyPatchToContent", original |-> original,
                 hunks |-> hunks,
                 res |-> applyPatchToContent(original, DiffPatch(PathF, hunks))]
    /\ UNCHANGED <<cfg, allowedCommands, dirent, inodes, sp, wr, rd, ad, ex, child, q, srv, rl>>

NextPatch == ApplyPatchToContentCall \/ OpReturn

SpecPatch == InitPatch /\ [][NextPatch]_vars

\* the lines of a content, without their newlines
LinesOf(content) ==
    LET ol == OriginalLines(content)
    IN  [i \in 1..Len(ol) |-> TrimSuffixNL(ol[i])]

\* the first line of the old file a hunk covers, as the unified format has it: a
\* hunk of no old line (count 0) stands after the line its header names
FirstCovered(h) == IF h.OldCount = 0 THEN h.OldStart + 1 ELSE h.OldStart

\* the hunk lies within the file, and its context and delete lines are the
\* lines of the file at the places its header gives
HunkFits(lines, h) ==
    /\ h.OldCount = Len(OldSide(h.Lines))
    /\ FirstCovered(h) >= 1
    /\ FirstCovered(h) + h.OldCount - 1 <= Len(lines)
    /\ \A k \in 1..h.OldCount : OldSide(h.Lines)[k].Text = lines[FirstCovered(h) + k - 1]

WellFormed(lines, hunks) ==
    /\ \A i \in 1..Len(hunks) : HunkFits(lines, hunks[i])
    /\ \A i \in 1..(Len(hunks) - 1) :
          FirstCovered(hunks[i]) + hunks[i].OldCount <= FirstCovered(hunks[i + 1])

\* the lines of the file from line from on, with the lines each hunk covers
\* replaced by its context and add lines
RECURSIVE Replaced(_, _, _)
Replaced(lines, hunks, from) ==
    IF hunks = <<>> THEN SubSeq(lines, from, Len(lines))
    ELSE LET h == Head(hunks)
             new == NewSide(h.Lines)
         IN  SubSeq(lines, from, FirstCovered(h) - 1)
                \o [k \in 1..Len(new) |-> new[k].Text]
                \o Replaced(lines, Tail(hunks), FirstCovered(h) + h.OldCount)

PatchDone == op.pc = "done" /\ op.name = "applyPatchToContent"

\* C16: applying a patch whose hunks lie within the file and whose context and
\* delete lines are the lines of the original at the places the headers give
\* yields the original with the lines each hunk covers replaced by the context
\* and add lines of the hunk, in order, and every other line unchanged.
C16_HunksReplaced ==
    (PatchDone /\ WellFormed(LinesOf(op.original), op.hunks)) =>
        LinesOf(op.res) = Replaced(LinesOf(op.original), op.hunks, 1)

\* the same for the patches whose hunks each cover a line or stand at the top of
\* the file
C16_CoveringHunksReplaced ==
    (/\ PatchDone /\ WellFormed(LinesOf(op.original), op.hunks)
     /\ \A i \in 1..Len(op.hunks) : op.hunks[i].OldCount > 0 \/ op.hunks[i].OldStart = 0) =>
        LinesOf(op.res) = Replaced(LinesOf(op.original), op.hunks, 1)

\* the example of the specification: of the lines 1, 2, 1 the second is replaced
C16_Witness_LineReplaced ==
    /\ PatchDone /\ op.original = <<1, NL, 2, NL, 1, NL>>
    /\ op.hunks = <<HunkAt(2, <<Line("-", <<2>>), Line("+", <<1>>)>>)>>
    /\ op.res = <<1, NL, 1, NL, 1, NL>>


-----------------------------------------------------------------------------
(* InspectWorkspace *)

\* the depth used when maxDepth is not positive
defaultMaxDepth == 2

\* the names of the model that stand for .git, node_modules and vendor
DotGit == <<".", "g">>
NodeModules == <<"n", "m">>
Vendor == <<"v">>

ignoreDirs == {DotGit, NodeModules, Vendor}
hiddenPrefixes == {Dot, <<".", "D">>}

TreeNode(path, isDir, size) == [Path |-> path, IsDir |-> isDir, Size |-> size]

\* the characters of the names of the model in the order of their bytes
CharOrder == <<".", "/", "a", "f", "g", "i", "l", "m", "n", "p", "r", "s", "u", "v">>
CharCode(ch) == CHOOSE k \in 1..Len(CharOrder) : CharOrder[k] = ch

\* a < b for two strings
RECURSIVE StrLess(_, _)
StrLess(a, b) ==
    IF b = <<>> THEN FALSE
    ELSE IF a = <<>> THEN TRUE
    ELSE IF Head(a) # Head(b) THEN CharCode(Head(a)) < CharCode(Head(b))
    ELSE StrLess(Tail(a), Tail(b))

\* a relative path as a string: "." for no component
RelString(comps) == IF comps = <<>> THEN Dot ELSE Tail(PathString(comps))

\* the less function of the sort: directories first, then by lower-cased path
NodeLess(a, b) ==
    IF a.IsDir = b.IsDir
    THEN StrLess(ToLower(RelString(a.Path)), ToLower(RelString(b.Path)))
    ELSE a.IsDir

\* sort.Slice (no two paths of the model are equal in lower case)
RECURSIVE SortNodes(_)
SortNodes(S) ==
    IF S = {} THEN <<>>
    ELSE LET first == CHOOSE x \in S : \A y \in S \ {x} : ~NodeLess(y, x)
         IN  <<first>> \o SortNodes(S \ {first})

\* the depth of an entry as the number of separators of its path
DepthBySeparators(rel) == IF rel = <<>> THEN 0 ELSE Len(rel) - 1

\* lines 233-236: depth is 0 for ".", and otherwise the number of separators of
\* the path, which is one less than that of its components, plus one
EntryDepth(rel) == IF rel = <<>> THEN 0 ELSE (Len(rel) - 1) + 1

\* what Lstat says of an entry: its size
EntrySize(ino, d) ==
    IF d.k = "file" THEN Len(ino[d.ino].c)
    ELSE IF d.k = "link" THEN Len(AbsString(d.t)) ELSE 0

\* the entries of a directory
Children(fs, path) == {p \in DOMAIN fs : p # <<>> /\ Front(p) = path}

\* filepath.WalkDir from path with the callback of lines 212-293: the nodes the
\* callback appends for path and what lies below it (symlinks are not followed)
RECURSIVE WalkDir(_, _, _, _)
WalkDir(fs, ino, path, maxDepth) ==
    LET d == Lookup(fs, path)
        rel == Rel(Root, path)
        isDir == d.k = "dir"
        name == Last(path)
    IN  IF EntryDepth(rel) > maxDepth THEN {}
        ELSE IF isDir /\ (name \in ignoreDirs \/ HasPrefix(name, Dot)) THEN {}
        ELSE IF \E prefix \in hiddenPrefixes : HasPrefix(name, prefix) THEN {}
        ELSE {TreeNode(rel, isDir, EntrySize(ino, d))}
             \cup (IF isDir
                   THEN UNION {WalkDir(fs, ino, p, maxDepth) : p \in Children(fs, path)}
                   ELSE {})

InspectRes(nodes, e) == [nodes |-> nodes, err |-> e]

\* lines 176-306: st is what os.Stat(absPath) gave
InspectStat(fs, ino, absPath, st, maxDepth, ctxDone) ==
    IF st.err # "" THEN InspectRes(<<>>, "stat")
    ELSE IF st.node.k # "dir" THEN InspectRes(<<>>, "notdir")
    ELSE IF ctxDone THEN InspectRes(<<>>, "cancelled")
    ELSE InspectRes(SortNodes(WalkDir(fs, ino, absPath,
                                      IF maxDepth <= 0 THEN defaultMaxDepth ELSE maxDepth)),
                    "")

\* lines 170-176: san is what sanitizePath(relPath) gave
InspectCheck(fs, ino, san, maxDepth, ctxDone) ==
    IF ~san.ok THEN InspectRes(<<>>, "path")
    ELSE InspectStat(fs, ino, san.abs, Stat(fs, san.abs), maxDepth, ctxDone)

InspectWorkspace(fs, ino, c, relPath, maxDepth, ctxDone) ==
    InspectCheck(fs, ino, sanitizePath(fs, c, relPath), maxDepth, ctxDone)


-----------------------------------------------------------------------------
(* SpecInspect: one call of InspectWorkspace on a tree of three levels *)

\* the largest maxDepth asked for
MaxInspectDepth == 4

Src == <<"s">>
App == <<"a">>
Pkg == <<"p">>

\* the root holds the file f, the directory s with the file m and the directory
\* a (with the file u), node_modules with the package p (with the file i) and
\* .git (with the file i)
InspectBase ==
    {<<Root, DirNode>>,
     <<Append(Root, NameF), FileNode(1)>>,
     <<Append(Root, Src), DirNode>>,
     <<Root \o <<Src, <<"m">>>>, FileNode(2)>>,
     <<Root \o <<Src, App>>, DirNode>>,
     <<Root \o <<Src, App, <<"u">>>>, FileNode(3)>>,
     <<Append(Root, NodeModules), DirNode>>,
     <<Root \o <<NodeModules, Pkg>>, DirNode>>,
     <<Root \o <<NodeModules, Pkg, <<"i">>>>, FileNode(4)>>,
     <<Append(Root, DotGit), DirNode>>,
     <<Root \o <<DotGit, <<"i">>>>, FileNode(5)>>}

\* what some trees hold besides: a symlink l to s, a hidden file s/.a, a vendor
\* directory s/v with a file
InspectOptions ==
    {{<<Append(Root, NameL), LinkNode(Append(Root, Src))>>},
     {<<Root \o <<Src, <<".", "a">>>>, FileNode(6)>>},
     {<<Root \o <<Src, Vendor>>, DirNode>>, <<Root \o <<Src, Vendor, <<"u">>>>, FileNode(7)>>}}

InspectTrees == {Tree(InspectBase \cup UNION opts) : opts \in SUBSET InspectOptions}

InspectPaths ==
    {Path(FALSE, <<Dot>>), Path(FALSE, <<Src>>), Path(FALSE, <<Src, App>>),
     Path(FALSE, <<NodeModules>>), Path(FALSE, <<NodeModules, Pkg>>),
     Path(FALSE, <<DotGit>>), Path(FALSE, <<NameF>>), Path(FALSE, <<NameL>>),
     Path(FALSE, <<NameG>>)}

InitInspect ==
    /\ cfg = DefaultCfg
    /\ allowedCommands = NewAllowedCommands(<<>>)
    /\ dirent \in InspectTrees
    /\ inodes = [i \in Linked(dirent) |-> [c |-> <<i>>, d |-> <<i>>]]
    /\ sp = NoCall
    /\ wr = NoWrites /\ rd = NoCall /\ ad = IdleAd /\ ex = IdleEx /\ child = IdleChild
    /\ q = NoCall /\ op = NoCall /\ srv = NoServer /\ rl = NoReloader

InspectWorkspaceCall ==
    /\ op.pc = "idle"
    /\ \E relPath \in InspectPaths, maxDepth \in (-1)..MaxInspectDepth, ctxDone \in BOOLEAN :
          op' = [pc |-> "done", name |-> "InspectWorkspace", relPath |-> relPath,
                 maxDepth |-> maxDepth, ctxDone |-> ctxDone,
                 res |-> InspectWorkspace(dirent, inodes, cfg, relPath, maxDepth, ctxDone)]
    /\ UNCHANGED <<cfg, allowedCommands, dirent, inodes, sp, wr, rd, ad, ex, child, q, srv, rl>>

NextInspect == InspectWorkspaceCall \/ OpReturn

SpecInspect == InitInspect /\ [][NextInspect]_vars

\* a call of InspectWorkspace has returned its nodes
Inspected == op.pc = "done" /\ op.name = "InspectWorkspace" /\ op.res.err = ""

\* the paths returned
InspectedPaths == {op.res.nodes[i].Path : i \in 1..Len(op.res.nodes)}

\* the entry abs is a dot-prefixed one or a directory of the ignore set
Ignored(abs) ==
    \/ HasPrefix(Last(abs), Dot)
    \/ Lookup(dirent, abs).k = "dir" /\ Last(abs) \in ignoreDirs

\* C18: for every start directory and every maxDepth >= 1, no entry returned is,
\* or lies beneath, a directory of the ignore set or a dot-prefixed entry.
C18_NothingIgnored ==
    (Inspected /\ op.maxDepth >= 1) =>
        \A rel \in InspectedPaths : \A k \in 1..Len(rel) :
            ~Ignored(Root \o SubSeq(rel, 1, k))

\* the directory the walk of the last call started from
StartDir == sanitizePath(dirent, cfg, op.relPath).abs

\* the maximum depth in force
DepthInForce == IF op.maxDepth <= 0 THEN 2 ELSE op.maxDepth

\* the entries at or below the start directory of which neither they nor a
\* directory between the start directory and them, both included, is ignored
NotIgnoredFrom(start) ==
    {p \in DOMAIN dirent :
        /\ Len(p) >= Len(start) /\ SubSeq(p, 1, Len(start)) = start
        /\ \A k \in Len(start)..Len(p) : ~Ignored(SubSeq(p, 1, k))}

\* the nodes are those of the entries in E, each once, with its kind
ReturnsExactly(E) ==
    /\ InspectedPaths = {Rel(Root, p) : p \in E}
    /\ Len(op.res.nodes) = Cardinality(E)
    /\ \A i \in 1..Len(op.res.nodes) :
          op.res.nodes[i].IsDir = (Lookup(dirent, Root \o op.res.nodes[i].Path).k = "dir")

\* the start directory lies beneath an ignored directory
StartBeneathIgnored == \E k \in 1..(Len(StartDir) - 1) : Ignored(SubSeq(StartDir, 1, k))

-----------------------------------------------------------------------------
(* ReadCodeFragment *)

\* the byte '\r'
CR == 13

\* const maxFragmentSize, and the widest range read of a file above it
maxFragmentSize == 20 * 1024
maxFragmentLines == 200

\* bufio.MaxScanTokenSize: the size the buffer of a Scanner grows to
MaxScanTokenSize == 64 * 1024

\* the elements of a set of numbers in ascending order
RECURSIVE Ascending(_)
Ascending(S) ==
    IF S = {} THEN <<>>
    ELSE LET least == CHOOSE x \in S : \A y \in S : x <= y
         IN  <<least>> \o Ascending(S \ {least})

\* bufio.ScanLines, dropCR: the line without the '\r' that ends it
DropCR(line) == IF line # <<>> /\ Last(line) = CR THEN Front(line) ELSE line

\* the lines bufio.ScanLines cuts the content into, as they stand in the file:
\* each ends before a '\n', the last one at the end of the file if bytes follow
\* the last '\n'
RawLines(content) ==
    LET nl == Ascending({i \in 1..Len(content) : content[i] = NL})
        from(k) == IF k = 1 THEN 1 ELSE nl[k - 1] + 1
        n == IF nl = <<>> THEN (IF content = <<>> THEN 0 ELSE 1)
             ELSE IF Last(nl) < Len(content) THEN Len(nl) + 1 ELSE Len(nl)
    IN  [k \in 1..n |-> SubSeq(content, from(k),
                               IF k <= Len(nl) THEN nl[k] - 1 ELSE Len(content))]

\* Scanner.Scan fails with ErrTooLong on a line that fills the buffer before its
\* '\n' is seen
TooLong(raw) == Len(raw) >= MaxScanTokenSize

FragmentRes(lines, truncated, e) == [lines |-> lines, truncated |-> truncated, err |-> e]

\* lines 365-393: the loop over scanner.Scan() on the lines raw of the file; it
\* ends at line endLine, at the end of the file or at a line Scan fails on
FragmentScan(raw, startLine, endLine, ctxDone) ==
    LET last == Min(endLine, Len(raw))
        stuck == {k \in 1..last : TooLong(raw[k])}
        currentLine == IF Len(raw) >= endLine THEN endLine ELSE Len(raw) + 1
    IN  IF ctxDone /\ raw # <<>> /\ ~TooLong(raw[1]) THEN FragmentRes(<<>>, FALSE, "cancelled")
        ELSE IF stuck # {} THEN FragmentRes(<<>>, FALSE, "scan")
        ELSE FragmentRes([k \in 1..(IF last >= startLine THEN last - startLine + 1 ELSE 0) |->
                             DropCR(raw[startLine + k - 1])],
                         currentLine < endLine, "")

\* FragmentOpen with the size check made from 20 KiB on
FragmentOpenFromLimit(ino, st, startLine, endLine, ctxDone) ==
    IF st.err # "" THEN FragmentRes(<<>>, FALSE, "open")
    ELSE IF st.node.k # "file" THEN FragmentRes(<<>>, FALSE, "scan")
    ELSE IF /\ Len(ino[st.node.ino].c) >= maxFragmentSize
            /\ endLine - startLine + 1 > maxFragmentLines
         THEN FragmentRes(<<>>, FALSE, "paginate")
    ELSE FragmentScan(RawLines(ino[st.node.ino].c), startLine, endLine, ctxDone)

\* lines 341-362: st is what os.Open and file.Stat gave of absPath
FragmentOpen(ino, st, startLine, endLine, ctxDone) ==
    IF st.err # "" THEN FragmentRes(<<>>, FALSE, "open")
    ELSE IF st.node.k # "file" THEN FragmentRes(<<>>, FALSE, "scan")
    ELSE IF /\ Len(ino[st.node.ino].c) > maxFragmentSize
            /\ endLine - startLine + 1 > maxFragmentLines
         THEN FragmentRes(<<>>, FALSE, "paginate")
    ELSE FragmentScan(RawLines(ino[st.node.ino].c), startLine, endLine, ctxDone)

\* lines 330-341: san is what sanitizePath(path) gave
FragmentCheck(fs, ino, c, san, startLine, endLine, ctxDone) ==
    IF ~san.ok THEN FragmentRes(<<>>, FALSE, "path")
    ELSE IF isBlockedExtension(c, san.abs) THEN FragmentRes(<<>>, FALSE, "blocked")
    ELSE FragmentOpen(ino, Stat(fs, san.abs), startLine, endLine, ctxDone)

ReadCodeFragment(fs, ino, c, path, startLine, endLine, ctxDone) ==
    IF startLine <= 0 \/ endLine < startLine THEN FragmentRes(<<>>, FALSE, "invalid")
    ELSE FragmentCheck(fs, ino, c, sanitizePath(fs, c, path), startLine, endLine, ctxDone)


-----------------------------------------------------------------------------
(* SpecFragment: one call of ReadCodeFragment on a file of a few lines, on a  *)
(* file above maxFragmentSize and on a file with a line that fills the buffer *)

\* the most lines of a small file
MaxFragLines == 3

\* the length of each of the three lines of the large file
LargeLineLen == 7000

\* the file of n lines, line k holding the byte 64 + k
SmallFile(n, nl) == FileOf([k \in 1..n |-> <<64 + k>>], nl)

\* two lines that end in "\r\n"
CRLFFile == <<65, CR, NL, 66, CR, NL>>

\* three lines of LargeLineLen bytes each
LargeFile ==
    [i \in 1..(3 * (LargeLineLen + 1)) |->
        IF i % (LargeLineLen + 1) = 0 THEN NL ELSE 65 + (i \div (LargeLineLen + 1))]

\* a line that fills the buffer of the Scanner, between two short ones
LongLineFile ==
    <<65, NL>> \o [i \in 1..MaxScanTokenSize |-> 66] \o <<NL, 67, NL>>

\* one line that makes a file of exactly maxFragmentSize bytes
EdgeFile == [i \in 1..maxFragmentSize |-> IF i = maxFragmentSize THEN NL ELSE 65]

FragFiles ==
    {SmallFile(n, nl) : n \in 0..MaxFragLines, nl \in BOOLEAN}
    \cup {CRLFFile, LargeFile, LongLineFile, EdgeFile}

FragPaths == {PathF, Path(FALSE, <<NameN>>), Path(FALSE, <<NameF \o ExtExe>>),
              Path(FALSE, <<Dot>>)}

\* the ranges asked for: around the lines of a small file, and of 200 and 201
\* lines
FragRanges ==
    ((0..(MaxFragLines + 1)) \X (0..(MaxFragLines + 2)))
    \cup {<<1, maxFragmentLines>>, <<1, maxFragmentLines + 1>>}

InitFragment ==
    /\ cfg = DefaultCfg
    /\ allowedCommands = NewAllowedCommands(<<>>)
    /\ dirent = Tree({<<Root, DirNode>>, <<AbsF, FileNode(1)>>})
    /\ \E content \in FragFiles : inodes = (1 :> [c |-> content, d |-> content])
    /\ sp = NoCall
    /\ wr = NoWrites /\ rd = NoCall /\ ad = IdleAd /\ ex = IdleEx /\ child = IdleChild
    /\ q = NoCall /\ op = NoCall /\ srv = NoServer /\ rl = NoReloader

ReadCodeFragmentCall ==
    /\ op.pc = "idle"
    /\ \E path \in FragPaths, range \in FragRanges, ctxDone \in BOOLEAN :
          op' = [pc |-> "done", name |-> "ReadCodeFragment", path |-> path,
                 startLine |-> range[1], endLine |-> range[2], ctxDone |-> ctxDone,
                 res |-> ReadCodeFragment(dirent, inodes, cfg, path,
                                          range[1], range[2], ctxDone)]
    /\ UNCHANGED <<cfg, allowedCommands, dirent, inodes, sp, wr, rd, ad, ex, child, q, srv, rl>>

NextFragment == ReadCodeFragmentCall \/ OpReturn

SpecFragment == InitFragment /\ [][NextFragment]_vars

\* the call that has returned was made on the file f with a valid range and no
\* cancellation
FragmentOfF ==
    /\ op.pc = "done" /\ op.name = "ReadCodeFragment" /\ op.path = PathF
    /\ 1 <= op.startLine /\ op.startLine <= op.endLine
    /\ ~op.ctxDone

\* the content of f, and the number of its lines: one for each newline and one
\* for what follows the last newline
FragmentFile == inodes[1].c
FragmentN ==
    Cardinality({i \in 1..Len(FragmentFile) : FragmentFile[i] = NL})
        + (IF FragmentFile # <<>> /\ Last(FragmentFile) # NL THEN 1 ELSE 0)

\* the call is one that the size check refuses: a file above 20 KiB and a range
\* of more than 200 lines
FragmentTooWide ==
    Len(FragmentFile) > 20480 /\ op.endLine - op.startLine + 1 > 200

\* the lines start..min(end, N) of f were returned, in the order of the file
FragmentLinesReturned ==
    LET last == Min(op.endLine, FragmentN)
        n == IF op.startLine <= FragmentN THEN last - op.startLine + 1 ELSE 0
    IN  /\ op.res.err = ""
        /\ Len(op.res.lines) = n
        /\ \A k \in 1..n :
              op.res.lines[k] = DropCR(RawLines(FragmentFile)[op.startLine + k - 1])

\* C20: for a file of N lines and a valid range start..end, ReadCodeFragment
\* returns exactly the lines start..min(end, N) in file order: min(end, N) -
\* start + 1 lines when start <= N and none otherwise (calls the size check
\* refuses aside).
C20_LinesInRange ==
    (FragmentOfF /\ ~FragmentTooWide) => FragmentLinesReturned

\* the same for the files of which no line is as long as the buffer of the
\* Scanner
C20_ShortLinesInRange ==
    (FragmentOfF /\ ~FragmentTooWide /\ FragmentFile # LongLineFile) => FragmentLinesReturned

\* the example of the specification in small: of a file of 3 lines read at 2..5
\* the lines 2 and 3 were returned
C20_Witness_LastLines ==
    /\ FragmentOfF /\ FragmentFile = SmallFile(3, TRUE)
    /\ op.startLine = 2 /\ op.endLine = 5
    /\ op.res.lines = << <<66>>, <<67>> >>


-----------------------------------------------------------------------------
(* SpecBlock: ReadFile, WriteFile, ReadCodeFragment and ApplyUnifiedDiff      *)
(* called on names that lead to files with a blocked extension: f.e itself,   *)
(* f.E, a symlink k to f.e and a symlink l to x.e, which does not exist.      *)
(* SearchAndReplace is called on f.e in SpecReplace.                          *)

NameK == <<"k">>
NameX == <<"x">>

AbsFE == Append(Root, NameF \o ExtExe)
AbsXE == Append(Root, NameX \o ExtExe)

\* what f.e holds
BlockData == <<8, NL>>

BlockPaths == {PathF, Path(FALSE, <<NameF \o ExtExe>>), Path(FALSE, <<NameF \o ExtE>>),
               Path(FALSE, <<NameK>>), Path(FALSE, <<NameL>>)}

\* a new file of one line under each name
PatchNew(path) == DiffPatch(path, <<Hunk(0, 0, 1, 1, <<Line("+", <<5>>)>>)>>)

BlockDiffInputs == {<<PatchModF>>} \cup {<<PatchNew(path)>> : path \in BlockPaths}

InitBlock ==
    /\ cfg = DefaultCfg
    /\ allowedCommands = NewAllowedCommands(<<>>)
    /\ dirent = Tree({<<Root, DirNode>>, <<AbsF, FileNode(1)>>, <<AbsFE, FileNode(2)>>,
                      <<Append(Root, NameK), LinkNode(AbsFE)>>,
                      <<Append(Root, NameL), LinkNode(AbsXE)>>})
    /\ inodes = (1 :> [c |-> DiffOld, d |-> DiffOld]) @@
                (2 :> [c |-> BlockData, d |-> BlockData])
    /\ sp = NoCall
    /\ wr = NoWrites /\ rd = NoCall /\ ad = IdleAd /\ ex = IdleEx /\ child = IdleChild
    /\ q = NoCall /\ op = NoCall /\ srv = NoServer /\ rl = NoReloader

\* one call at a time
BlockQuiet == Quiet /\ ad.pc = "idle" /\ op.pc = "idle"

BlockReadFileCall ==
    /\ BlockQuiet
    /\ \E path \in BlockPaths :
          rd' = [pc |-> "done", path |-> path, maxBytes |-> 0, ctxDone |-> FALSE,
                 res |-> ReadFile(dirent, inodes, cfg, path, 0, FALSE)]
    /\ UNCHANGED <<cfg, allowedCommands, dirent, inodes, sp, wr, ad, ex, child, q, op, srv, rl>>

BlockWriteFileCall ==
    /\ BlockQuiet
    /\ \E path \in BlockPaths, allowCreate \in BOOLEAN :
          WriteFileBegin(1, path, <<4>>, allowCreate, FALSE)

BlockReadCodeFragmentCall ==
    /\ BlockQuiet
    /\ \E path \in BlockPaths :
          op' = [pc |-> "done", name |-> "ReadCodeFragment", path |-> path,
                 startLine |-> 1, endLine |-> 2, ctxDone |-> FALSE,
                 res |-> ReadCodeFragment(dirent, inodes, cfg, path, 1, 2, FALSE)]
    /\ UNCHANGED <<cfg, allowedCommands, dirent, inodes, sp, wr, rd, ad, ex, child, q, srv, rl>>

BlockApplyUnifiedDiffCall ==
    /\ BlockQuiet
    /\ \E patches \in BlockDiffInputs, dryRun \in BOOLEAN : ApplyBegin(patches, dryRun, FALSE)

NextBlock ==
    \/ BlockReadFileCall
    \/ ReadFileReturn
    \/ BlockWriteFileCall
    \/ WriteStep(1)
    \/ WriteFileReturn(1)
    \/ BlockReadCodeFragmentCall
    \/ OpReturn
    \/ BlockApplyUnifiedDiffCall
    \/ ApplyPatchCheck
    \/ ApplyBackup
    \/ ApplyOpen
    \/ ApplyWrite
    \/ ApplyWriteFails
    \/ ApplyCommit
    \/ ApplyReturn

SpecBlock == InitBlock /\ [][NextBlock]_vars

\* the files of the workspace whose extension is in the BlockList
BlockedFiles == {AbsFE, AbsXE, Append(Root, NameF \o ExtE)}

\* the file a name leads to once the filesystem has followed every symlink has
\* a blocked extension
BlockedTarget(path) ==
    isBlockedExtension(cfg, Denotes(dirent, Join(Root, Clean(path)).comps))

\* no step changes what a file of files holds, creates it or removes it
Untouched(files) ==
    \A p \in files : ContentAt(dirent', inodes', p) = ContentAt(dirent, inodes, p)

\* a read that this step makes of a name that leads to a blocked file fails and
\* returns nothing
BlockedUnread ==
    /\ (rd.pc = "idle" /\ rd'.pc = "done" /\ BlockedTarget(rd'.path))
          => (rd'.res.err # "" /\ rd'.res.data = <<>>)
    /\ (op.pc = "idle" /\ op'.pc = "done" /\ op'.name = "ReadCodeFragment"
          /\ BlockedTarget(op'.path))
          => (op'.res.err # "" /\ op'.res.lines = <<>>)

\* C17: ReadFile, WriteFile, ReadCodeFragment, SearchAndReplace and
\* ApplyUnifiedDiff reject every path whose resolved target has an extension of
\* the BlockList, compared without regard to case, and neither read nor write
\* any content of it: no file with a blocked extension is created or changed,
\* and no read returns content of one.
C17_BlockedRejected == [][Untouched(BlockedFiles) /\ BlockedUnread]_vars

\* the same for f.e, the blocked file that exists, reached by its name or
\* through the symlink k
C17_ExistingBlockedRejected == [][Untouched({AbsFE}) /\ BlockedUnread]_vars

\* each operation has refused a name whose resolved target is blocked
C17_Witness_Refused ==
    /\ ad.pc = "done" /\ ad.errRet = "blocked"
    /\ ad.patches = <<PatchNew(Path(FALSE, <<NameK>>))>>
    /\ ContentAt(dirent, inodes, AbsFE) = BlockData


\* the call on f returned lines
FragmentServed == FragmentOfF /\ op.res.err = ""

\* C21: for a file of N lines and a valid range start..end, the truncated flag
\* that ReadCodeFragment returns is true exactly when N < end, the cases N =
\* end - 1 and the empty file included.
C21_TruncatedIffShort ==
    FragmentServed => (op.res.truncated <=> FragmentN < op.endLine)

\* what the flag tells: the file lacks at least two of the lines asked for
C21_TruncatedIffShortByTwo ==
    FragmentServed => (op.res.truncated <=> FragmentN + 1 < op.endLine)


\* a call on f has returned, whatever its range
FragmentCallOnF ==
    op.pc = "done" /\ op.name = "ReadCodeFragment" /\ op.path = PathF /\ ~op.ctxDone

FragmentRangeValid == 1 <= op.startLine /\ op.startLine <= op.endLine

\* C22: ReadCodeFragment fails and returns no lines when start < 1 or end <
\* start, and when the file is larger than 20 KiB and end - start + 1 exceeds
\* 200; a request of at most 200 lines on a large file and any valid range on
\* a file of at most 20 KiB is never refused for its size, and what it returns
\* without an error is every line of the range that the file has.
C22_Rejections ==
    FragmentCallOnF =>
        /\ ~FragmentRangeValid => (op.res.err = "invalid" /\ op.res.lines = <<>>)
        /\ (FragmentRangeValid /\ FragmentTooWide)
              => (op.res.err = "paginate" /\ op.res.lines = <<>>)
        /\ (FragmentRangeValid /\ ~FragmentTooWide)
              => /\ op.res.err \notin {"invalid", "paginate"}
                 /\ op.res.err = "" => FragmentLinesReturned

\* 201 lines asked of the file of 21003 bytes: refused
C22_Witness_RangeTooLarge ==
    /\ FragmentCallOnF /\ FragmentFile = LargeFile
    /\ op.startLine = 1 /\ op.endLine = 201
    /\ op.res.err = "paginate"

\* 201 lines asked of the file of exactly 20 KiB, and 200 lines of the large
\* file: served
C22_Witness_Served ==
    /\ FragmentCallOnF /\ FragmentFile = EdgeFile
    /\ op.startLine = 1 /\ op.endLine = 201
    /\ op.res.err = "" /\ Len(op.res.lines) = 1


-----------------------------------------------------------------------------
(* SpecRead: ReadFile called with every cap on files shorter than, as long as *)
(* and longer than the cap, and on one that takes more than one buffer        *)

\* the most bytes of a small file
MaxReadLen == 4

\* a file that does not fit the buffer of the read loop
LongReadFile == [i \in 1..(bufSize + 2) |-> 1 + (i % 7)]

ReadFiles == {[i \in 1..n |-> i] : n \in 0..MaxReadLen} \cup {LongReadFile}

ReadPaths == {PathF, Path(FALSE, <<NameN>>), Path(FALSE, <<NameF \o ExtExe>>)}

\* the caps asked for: none, small ones, and one byte more than the buffer
ReadCaps == ((-1)..(MaxReadLen + 1)) \cup {bufSize + 1}

InitRead ==
    /\ cfg = DefaultCfg
    /\ allowedCommands = NewAllowedCommands(<<>>)
    /\ dirent = Tree({<<Root, DirNode>>, <<AbsF, FileNode(1)>>})
    /\ \E content \in ReadFiles : inodes = (1 :> [c |-> content, d |-> content])
    /\ sp = NoCall
    /\ wr = NoWrites /\ rd = NoCall /\ ad = IdleAd /\ ex = IdleEx /\ child = IdleChild
    /\ q = NoCall /\ op = NoCall /\ srv = NoServer /\ rl = NoReloader

ReadFileCallCapped ==
    /\ rd.pc = "idle"
    /\ \E path \in ReadPaths, maxBytes \in ReadCaps, ctxDone \in BOOLEAN :
          rd' = [pc |-> "done", path |-> path, maxBytes |-> maxBytes, ctxDone |-> ctxDone,
                 res |-> ReadFile(dirent, inodes, cfg, path, maxBytes, ctxDone)]
    /\ UNCHANGED <<cfg, allowedCommands, dirent, inodes, sp, wr, ad, ex, child, q, op, srv, rl>>

NextRead == ReadFileCallCapped \/ ReadFileReturn

SpecRead == InitRead /\ [][NextRead]_vars

\* the cap of the call that has returned
ReadCap == IF rd.maxBytes > 0 THEN rd.maxBytes ELSE cfg.MaxFileBytes

\* the call that has returned read f and was not cancelled
ReadOfF == rd.pc = "done" /\ rd.path = PathF /\ ~rd.ctxDone

\* C23: ReadFile never returns more than the cap (maxBytes if positive, else
\* the configured maximum): of a file larger than the cap it returns exactly
\* the first cap bytes with the SizeExceeded error, of a file that is not
\* larger the whole content and no error.
C23_BoundedRead ==
    /\ rd.pc = "done" => Len(rd.res.data) <= ReadCap
    /\ ReadOfF =>
          IF Len(inodes[1].c) > ReadCap
          THEN rd.res.err = "truncated" /\ rd.res.data = SubSeq(inodes[1].c, 1, ReadCap)
          ELSE rd.res.err = "" /\ rd.res.data = inodes[1].c

\* a file of 4 bytes read with maxBytes = 3: the first 3 bytes and the error
C23_Witness_Cut ==
    /\ ReadOfF /\ inodes[1].c = <<1, 2, 3, 4>> /\ rd.maxBytes = 3
    /\ rd.res.data = <<1, 2, 3>> /\ rd.res.err = "truncated"

\* a file of two bytes more than the buffer read with a cap of one byte more
\* than the buffer: two reads
C23_Witness_TwoReads ==
    /\ ReadOfF /\ inodes[1].c = LongReadFile /\ rd.maxBytes = bufSize + 1
    /\ Len(rd.res.data) = bufSize + 1 /\ rd.res.err = "truncated"


-----------------------------------------------------------------------------
(* SpecCancel: the mutating operations called with a context that is already *)
(* cancelled                                                                  *)

CancelWrites == {PathF, PathG, Path(FALSE, <<NameD, NameF>>)}
CancelReplaces == {PathF, PathG}
CancelDiffs == {<<>>, <<PatchModF>>, <<PatchNewG>>, <<PatchModF, PatchNewG>>}

InitCancel ==
    /\ cfg = DefaultCfg
    /\ allowedCommands = NewAllowedCommands(<<>>)
    /\ dirent \in { Tree({<<Root, DirNode>>, <<AbsF, FileNode(1)>>} \cup ts) :
                      ts \in {{}, {<<tmpPathOf(AbsF), FileNode(2)>>}} }
    /\ inodes = [i \in Linked(dirent) |->
                    IF i = 1 THEN [c |-> DiffOld, d |-> DiffOld]
                    ELSE [c |-> StrayData, d |-> StrayData]]
    /\ sp = NoCall
    /\ wr = NoWrites /\ rd = NoCall /\ ad = IdleAd /\ ex = IdleEx /\ child = IdleChild
    /\ q = NoCall /\ op = NoCall /\ srv = NoServer /\ rl = NoReloader

CancelWriteFileCall ==
    /\ BlockQuiet
    /\ \E path \in CancelWrites, data \in Datas, allowCreate \in BOOLEAN :
          WriteFileBegin(1, path, data, allowCreate, TRUE)

\* SearchAndReplace takes ctx and never reads it
CancelSearchAndReplaceCall ==
    /\ BlockQuiet
    /\ \E path \in CancelReplaces, old \in {<<2>>, <<4>>}, expectedOccurrences \in 0..2 :
          \E r \in {SearchAndReplace(dirent, inodes, cfg, path, old, <<7>>,
                                     expectedOccurrences, -1, FALSE)} :
              /\ op' = [pc |-> "done", name |-> "SearchAndReplace", path |-> path,
                        old |-> old, new |-> <<7>>, ctxDone |-> TRUE,
                        expectedOccurrences |-> expectedOccurrences,
                        actualOccurrences |-> r.actualOccurrences, err |-> r.err]
              /\ dirent' = r.fs
              /\ inodes' = r.ino
    /\ UNCHANGED <<cfg, allowedCommands, sp, wr, rd, ad, ex, child, q, srv, rl>>

CancelApplyUnifiedDiffCall ==
    /\ BlockQuiet
    /\ \E patches \in CancelDiffs : ApplyBegin(patches, FALSE, TRUE)

NextCancel ==
    \/ CancelWriteFileCall
    \/ WriteStatDir(1)
    \/ WriteCreate(1)
    \/ WriteCleanup(1)
    \/ WriteFileReturn(1)
    \/ CancelSearchAndReplaceCall
    \/ OpReturn
    \/ CancelApplyUnifiedDiffCall
    \/ ApplyPatchCheck
    \/ ApplyReturn

SpecCancel == InitCancel /\ [][NextCancel]_vars

\* WriteFile, once past the checks of its path and of the parent directory and
\* the creation of its temporary file, returns Cancelled, and its target holds
\* what it held
CancelledWrite ==
    (wr[1].pc = "done" /\ wr[1].err \notin {"path", "blocked", "parent", "statparent", "create"})
        => /\ wr[1].err = "cancelled"
           /\ ContentAt(dirent, inodes, wr[1].absPath) = wr[1].pre

\* ApplyUnifiedDiff with a diff that holds a patch returns Cancelled and has
\* applied nothing
CancelledDiff ==
    (ad.pc = "done" /\ ad.patches # <<>>)
        => (ad.errRet = "cancelled" /\ ad.appliedFiles = <<>> /\ ~ad.moved)

\* no step of ApplyUnifiedDiff changes a file
CancelledDiffSteps ==
    (ad.pc # "idle" \/ ad'.pc # "idle") => UNCHANGED <<dirent, inodes>>

\* the step is a call of SearchAndReplace on a file in which old occurs as
\* often as expected
MatchingReplace ==
    /\ op.pc = "idle" /\ op'.pc = "done" /\ op'.name = "SearchAndReplace"
    /\ SRFileOf(op'.path) # Absent
    /\ op'.expectedOccurrences > 0
    /\ op'.expectedOccurrences = OccurrenceCount(SRFileOf(op'.path), op'.old)

CancelledReplace ==
    MatchingReplace => (op'.err = "cancelled" /\ UNCHANGED <<dirent, inodes>>)

\* C24: WriteFile, ApplyUnifiedDiff with dryRun = false and SearchAndReplace
\* with a matching expected count, called with a context that is already
\* cancelled, return the Cancelled error and leave the content of their
\* target as it was.
C24_CancelledUnchanged ==
    [][CancelledWrite' /\ CancelledDiff' /\ CancelledDiffSteps /\ CancelledReplace]_vars

\* the same of WriteFile and ApplyUnifiedDiff alone
C24_WriteAndDiffCancelled ==
    [][CancelledWrite' /\ CancelledDiff' /\ CancelledDiffSteps]_vars

\* WriteFile on f and ApplyUnifiedDiff on f have returned Cancelled
C24_Witness_WriteCancelled ==
    /\ wr[1].pc = "done" /\ wr[1].err = "cancelled" /\ wr[1].path = PathF
    /\ ContentAt(dirent, inodes, AbsF) = DiffOld


-----------------------------------------------------------------------------
(* The server: NewServer, the tool handlers' onActivity and the idle check   *)
(* of RunSTDIO.  Time is counted in steps of which Minute make a minute.     *)

\* the steps of the clock in a minute
Minute == 2

\* server.go:65 and :75
idleTimeout == 30 * Minute
tickerPeriod == Minute

\* how long after idleTimeout the clock of the model runs
MaxIdleSlack == 6

\* the callback the tool handlers call first: the tool handlers leave
\* lastActivity alone
onActivityDropped(s) == s

\* server.go:36-38 and register_tools.go: every tool handler calls
\* onActivity() before anything else
onActivity(s) == [s EXCEPT !.lastActivity = s.now]

\* server.go:27-42: NewServer stores the time of construction; invoked is the
\* time of the most recent tool invocation (of the construction before the
\* first one), kept for the properties; executing and deadline describe the
\* tool call whose handler has not returned yet
NewServer(now) ==
    [pc |-> "new", now |-> now, lastActivity |-> now, invoked |-> now, nextTick |-> 0,
     why |-> "", stoppedAt |-> 0, executing |-> FALSE, deadline |-> 0]

SrvUnchanged ==
    UNCHANGED <<cfg, allowedCommands, dirent, inodes, sp, wr, rd, ad, ex, child, q, op, rl>>

\* server.go:61-76: RunSTDIO starts Serve and the ticker
RunSTDIO ==
    /\ srv.pc = "new"
    /\ srv' = [srv EXCEPT !.pc = "running", !.nextTick = srv.now + tickerPeriod]
    /\ SrvUnchanged

\* time passes: at most one step between NewServer and RunSTDIO, which main
\* calls one after the other; a tick that is due is taken first
TimePasses ==
    /\ srv.pc \in {"new", "running"}
    /\ srv.now < idleTimeout + MaxIdleSlack
    /\ srv.pc = "new" => srv.now < 1
    /\ srv.pc = "running" => srv.now < srv.nextTick
    /\ srv' = [srv EXCEPT !.now = @ + 1]
    /\ SrvUnchanged

\* a tool is invoked: its handler calls onActivity
ToolInvoked ==
    /\ srv.pc = "running"
    /\ srv' = [onActivity(srv) EXCEPT !.invoked = srv.now]
    /\ SrvUnchanged

\* server.go:81-88: the ticker fires
TickerFires ==
    /\ srv.pc = "running"
    /\ srv.now = srv.nextTick
    /\ IF srv.now - srv.lastActivity >= idleTimeout
       THEN srv' = [srv EXCEPT !.pc = "stopped", !.why = "idle", !.stoppedAt = srv.now]
       ELSE srv' = [srv EXCEPT !.nextTick = srv.now + tickerPeriod]
    /\ SrvUnchanged

\* server.go:79-80 and :93: the context of the caller is cancelled (a signal)
Interrupted ==
    /\ srv.pc = "running"
    /\ srv' = [srv EXCEPT !.pc = "stopped", !.why = "signal", !.stoppedAt = srv.now]
    /\ SrvUnchanged

-----------------------------------------------------------------------------
(* SpecServer: a server made at time 0 and run at once or one step later,   *)
(* with tools invoked at any time and a signal at any time                  *)

InitServer ==
    /\ cfg = DefaultCfg
    /\ allowedCommands = NewAllowedCommands(<<>>)
    /\ dirent = Tree({<<Root, DirNode>>})
    /\ inodes = EmptyInodes(dirent)
    /\ sp = NoCall
    /\ wr = NoWrites /\ rd = NoCall /\ ad = IdleAd /\ ex = IdleEx /\ child = IdleChild
    /\ q = NoCall /\ op = NoCall
    /\ srv = NewServer(0)
    /\ rl = NoReloader

NextServer ==
    \/ RunSTDIO
    \/ TimePasses
    \/ ToolInvoked
    \/ TickerFires
    \/ Interrupted

SpecServer == InitServer /\ [][NextServer]_vars

\* C25: the server shuts itself down for idleness only when at least 30
\* minutes have passed since the most recent tool invocation; once 30 minutes
\* have passed with no tool invocation it shuts down no later than the next
\* one-minute check, so a running server is never idle for 31 minutes; each
\* tool invocation restarts the count.
C25_IdleShutdown ==
    /\ (srv.pc = "stopped" /\ srv.why = "idle")
          => srv.stoppedAt - srv.invoked >= 30 * Minute
    /\ srv.pc = "running" => srv.now - srv.invoked < 30 * Minute + Minute
    /\ (srv.pc = "running" /\ srv.now = srv.nextTick - Minute)
          => srv.now - srv.invoked < 30 * Minute

\* a tool was invoked one minute and a half after the start, and the server
\* stopped for idleness at the first check 30 minutes after it
C25_Witness_StoppedIdle ==
    /\ srv.pc = "stopped" /\ srv.why = "idle"
    /\ srv.invoked = Minute + 1
    /\ srv.stoppedAt = 32 * Minute



-----------------------------------------------------------------------------
(* parseUnifiedDiff: the text of a diff to DiffPatch values *)

\* strings.TrimPrefix
TrimPrefix(s, p) == IF HasPrefix(s, p) THEN SubSeq(s, Len(p) + 1, Len(s)) ELSE s

\* strings.Contains
Contains(s, sub) ==
    \E i \in 1..(Len(s) - Len(sub) + 1) : SubSeq(s, i, i + Len(sub) - 1) = sub

\* strings.Split(s, sep) for a separator that is not empty
RECURSIVE Split(_, _, _)
Split(s, sep, cur) ==
    IF s = <<>> THEN <<cur>>
    ELSE IF HasPrefix(s, sep)
    THEN <<cur>> \o Split(SubSeq(s, Len(sep) + 1, Len(s)), sep, <<>>)
    ELSE Split(Tail(s), sep, Append(cur, Head(s)))

\* strings.Join(lines, "\n")
RECURSIVE JoinNL(_)
JoinNL(lines) ==
    IF lines = <<>> THEN <<>>
    ELSE IF Len(lines) = 1 THEN lines[1]
    ELSE lines[1] \o <<"\n">> \o JoinNL(Tail(lines))

DigitValue ==
    [ch \in {"0", "1", "2", "3", "4", "5", "6", "7", "8", "9"} |->
        CASE ch = "0" -> 0 [] ch = "1" -> 1 [] ch = "2" -> 2 [] ch = "3" -> 3
          [] ch = "4" -> 4 [] ch = "5" -> 5 [] ch = "6" -> 6 [] ch = "7" -> 7
          [] ch = "8" -> 8 [] OTHER -> 9]

IsDigit(ch) == ch \in DOMAIN DigitValue

\* the decimal digits a string starts with, as a number
RECURSIVE ScanDigits(_, _)
ScanDigits(s, acc) ==
    IF s # <<>> /\ IsDigit(Head(s))
    THEN ScanDigits(Tail(s), 10 * acc + DigitValue[Head(s)])
    ELSE acc

\* fmt.Sscanf(s, "%d", &field) with its error dropped: leading space is
\* skipped, a sign is accepted, and the field keeps its old value when no
\* digit follows
Sscanf(s, old) ==
    LET t == TrimLeft(s)
        signed == t # <<>> /\ Head(t) \in {"+", "-"}
        d == IF signed THEN Tail(t) ELSE t
    IN  IF d = <<>> \/ ~IsDigit(Head(d)) THEN old
        ELSE IF signed /\ Head(t) = "-" THEN 0 - ScanDigits(d, 0)
        ELSE ScanDigits(d, 0)

\* lines 330-339 and 342-351: one "start,count" part of a hunk header
RangePart(part) ==
    IF Contains(part, <<",">>)
    THEN LET p == Split(part, <<",">>, <<>>)
         IN  IF Len(p) = 2
             THEN [start |-> Sscanf(p[1], 0), count |-> Sscanf(p[2], 0)]
             ELSE [start |-> 0, count |-> 0]
    ELSE [start |-> Sscanf(part, 0), count |-> 1]

\* parseHunkHeader. line starts with "@@ "; the slice line[2 : len(line)-2]
\* of a line of three bytes has its low bound above its high bound, which
\* is a run-time panic
parseHunkHeader(line) ==
    IF Len(line) - 2 < 2
    THEN [err |-> "panic", hunk |-> Hunk(0, 0, 0, 0, <<>>)]
    ELSE LET content == TrimSpace(SubSeq(line, 3, Len(line) - 2))
             parts == Split(content, <<" ", "+">>, <<>>)
         IN  IF Len(parts) # 2
             THEN [err |-> "invalid format", hunk |-> Hunk(0, 0, 0, 0, <<>>)]
             ELSE LET old == RangePart(TrimPrefix(parts[1], <<"-">>))
                      new == RangePart(parts[2])
                  IN  [err |-> "",
                       hunk |-> Hunk(old.start, old.count,
                                     new.start, new.count, <<>>)]

\* sort.Slice of normalizeHunks by OldStart: for the short slices of the
\* model the library sorts by insertion, which keeps equal keys in order
RECURSIVE InsertHunk(_, _)
InsertHunk(sorted, h) ==
    IF sorted = <<>> THEN <<h>>
    ELSE IF h.OldStart < Last(sorted).OldStart
    THEN Append(InsertHunk(Front(sorted), h), Last(sorted))
    ELSE Append(sorted, h)

RECURSIVE SortHunks(_, _)
SortHunks(hunks, sorted) ==
    IF hunks = <<>> THEN sorted
    ELSE SortHunks(Tail(hunks), InsertHunk(sorted, Head(hunks)))

\* a variant that leaves the hunks in the order of the text
normalizeHunksKept(hunks) == hunks

normalizeHunks(hunks) == SortHunks(hunks, <<>>)

\* the locals of parseUnifiedDiff: patches, currentPatch (hasPatch says it
\* is not nil), currentHunk (hasHunk says it is not nil), inHunk, and the
\* error it returns with the number of the line that raised it
ParserStart ==
    [patches |-> <<>>, hasPatch |-> FALSE, FilePath |-> <<>>, Hunks |-> <<>>,
     hasHunk |-> FALSE, hunk |-> Hunk(0, 0, 0, 0, <<>>), inHunk |-> FALSE,
     err |-> "", line |-> 0]

DevNull == <<"/", "d", "e", "v", "/", "n", "u", "l", "l">>
OldHeader == <<"-", "-", "-", " ">>
NewHeader == <<"+", "+", "+", " ">>
HunkMarker == <<"@", "@", " ">>
PrefixA == <<"a", "/">>
PrefixB == <<"b", "/">>

\* lines 238-242 and 294-298: the current patch is closed with its last hunk
ClosePatch(st) ==
    IF st.hasPatch /\ st.hasHunk
    THEN Append(st.patches,
                [FilePath |-> st.FilePath,
                 Hunks |-> normalizeHunks(Append(st.Hunks, st.hunk))])
    ELSE st.patches

\* lines 236-253: an old-file header
ParseOldHeader(st, line) ==
    [st EXCEPT !.patches = ClosePatch(st),
               !.hasPatch = TRUE,
               !.FilePath = TrimPrefix(TrimPrefix(SubSeq(line, 5, Len(line)),
                                                  PrefixA), PrefixB),
               !.Hunks = <<>>,
               !.hasHunk = FALSE,
               !.inHunk = FALSE]

\* lines 255-264: a new-file header
ParseNewHeader(st, line) ==
    LET newPath == TrimPrefix(TrimPrefix(SubSeq(line, 5, Len(line)),
                                         PrefixB), PrefixA)
    IN  IF newPath # DevNull THEN [st EXCEPT !.FilePath = newPath] ELSE st

\* lines 267-279: a hunk header
ParseHunkMarker(st, line, i) ==
    LET r == parseHunkHeader(line)
    IN  IF r.err # "" THEN [st EXCEPT !.err = r.err, !.line = i]
        ELSE [st EXCEPT !.Hunks = IF st.hasHunk THEN Append(st.Hunks, st.hunk)
                                  ELSE st.Hunks,
                        !.hunk = r.hunk,
                        !.hasHunk = TRUE,
                        !.inHunk = TRUE]

\* lines 282-291: a line of the hunk
ParseHunkLine(st, line) ==
    IF line[1] \in {"+", "-", " "}
    THEN [st EXCEPT !.hunk.Lines =
              Append(st.hunk.Lines, Line(line[1], Tail(line)))]
    ELSE st

\* lines 232-292: one turn of the loop on the line numbered i
ParseLine(st, line, i) ==
    IF HasPrefix(line, OldHeader) /\ ~HasPrefix(line, OldHeader \o DevNull)
    THEN ParseOldHeader(st, line)
    ELSE IF HasPrefix(line, NewHeader) /\ st.hasPatch
    THEN ParseNewHeader(st, line)
    ELSE IF HasPrefix(line, HunkMarker) /\ st.hasPatch
    THEN ParseHunkMarker(st, line, i)
    ELSE IF st.inHunk /\ st.hasHunk /\ Len(line) > 0
    THEN ParseHunkLine(st, line)
    ELSE st

RECURSIVE ParseLines(_, _, _)
ParseLines(st, lines, i) ==
    IF st.err # "" \/ i > Len(lines) THEN st
    ELSE ParseLines(ParseLine(st, lines[i], i), lines, i + 1)

\* parseUnifiedDiff: the patches, or the error and its line
parseUnifiedDiff(diffText) ==
    LET st == ParseLines(ParserStart, Split(diffText, <<"\n">>, <<>>), 1)
        patches == ClosePatch(st)
    IN  IF st.err # "" THEN [err |-> st.err, line |-> st.line, patches |-> <<>>]
        ELSE [err |-> "", line |-> 0,
              patches |-> [k \in 1..Len(patches) |->
                              DiffPatch(patches[k].FilePath, patches[k].Hunks)]]



-----------------------------------------------------------------------------
(* SpecParse: parseUnifiedDiff on diffs of a few lines *)

MaxDiffLines == 4
MaxBadDiffLines == 3

\* an old-file header
LineOldF == <<"-", "-", "-", " ", "a", "/", "f">>
\* the old-file header of a new file
LineOldNull == <<"-", "-", "-", " ", "/", "d", "e", "v", "/", "n", "u", "l", "l">>
\* a new-file header
LineNewG == <<"+", "+", "+", " ", "b", "/", "g">>
\* a hunk header
LineHunk == <<"@", "@", " ", "-", "1", ",", "2", " ", "+", "3", " ", "@", "@">>
LineAdd == <<"+", "5">>
LineDel == <<"-", "5">>
LineCtx == <<" ", "5">>
\* the deletion of the line "-- x"
LineDelDashes == <<"-", "-", "-", " ", "x">>
\* the addition of the line "++ y"
LineAddPluses == <<"+", "+", "+", " ", "y">>
LineEmpty == <<>>
\* a line that starts with a backslash
LineNoNewline == <<"\\">>
\* hunk markers that are not well formed
LineBare == <<"@", "@", " ">>
LineLetters == <<"@", "@", " ", "-", "x", " ", "+", "1", " ", "@", "@">>
LineOnePart == <<"@", "@", " ", "-", "1", " ", "@", "@">>

GoodLines ==
    {LineOldF, LineOldNull, LineNewG, LineHunk, LineAdd, LineDel, LineCtx,
     LineDelDashes, LineAddPluses, LineEmpty, LineNoNewline}
BadMarkers == {LineBare, LineLetters, LineOnePart}

\* the diffs of the specification, as sequences of lines
DiffLines ==
    SeqsUpTo(GoodLines, MaxDiffLines)
        \cup SeqsUpTo(GoodLines \cup BadMarkers, MaxBadDiffLines)

InitParse ==
    /\ cfg = DefaultCfg
    /\ allowedCommands = NewAllowedCommands(<<>>)
    /\ dirent = Tree({<<Root, DirNode>>})
    /\ inodes = EmptyInodes(dirent)
    /\ sp = NoCall
    /\ wr = NoWrites /\ rd = NoCall /\ ad = IdleAd /\ ex = IdleEx /\ child = IdleChild
    /\ q = NoCall /\ op = NoCall /\ srv = NoServer /\ rl = NoReloader

\* parseUnifiedDiff(diffText), as ApplyUnifiedDiff calls it on its argument
ParseUnifiedDiffCall ==
    /\ op.pc = "idle"
    /\ \E lines \in DiffLines :
          \E r \in {parseUnifiedDiff(JoinNL(lines))} :
              op' = [pc |-> "done", name |-> "parseUnifiedDiff", lines |-> lines,
                     res |-> r]
    /\ UNCHANGED <<cfg, allowedCommands, dirent, inodes, sp, wr, rd, ad, ex, child, q, srv, rl>>

NextParse == ParseUnifiedDiffCall \/ OpReturn

SpecParse == InitParse /\ [][NextParse]_vars

Parsed == op.pc = "done" /\ op.name = "parseUnifiedDiff"

\* the lines of a diff that begin a file section, the hunk markers of the
\* section that starts at line h, and its new-file headers
OldHeaderLines(lines) == {i \in 1..Len(lines) : HasPrefix(lines[i], OldHeader)}
SectionEnd(lines, h) ==
    IF \E i \in OldHeaderLines(lines) : i > h
    THEN (CHOOSE i \in OldHeaderLines(lines) :
              i > h /\ \A j \in OldHeaderLines(lines) : j > h => i <= j) - 1
    ELSE Len(lines)
SectionMarkers(lines, h) ==
    {i \in h..SectionEnd(lines, h) : HasPrefix(lines[i], HunkMarker)}
SectionNewHeaders(lines, h) ==
    {i \in h..SectionEnd(lines, h) : HasPrefix(lines[i], NewHeader)}
SectionsWithHunk(lines) ==
    {h \in OldHeaderLines(lines) : SectionMarkers(lines, h) # {}}
\* the k-th element of a set of numbers, counted from the smallest
Nth(S, k) == CHOOSE x \in S : Cardinality({y \in S : y <= x}) = k

\* every "--- " and "+++ " line of the diff is a file header
OnlyFileHeaders(lines) ==
    \A i \in 1..Len(lines) :
        (HasPrefix(lines[i], OldHeader) \/ HasPrefix(lines[i], NewHeader))
            => lines[i] \in {LineOldF, LineOldNull, LineNewG}

SectionsParsed(lines, patches) ==
    /\ Len(patches) = Cardinality(SectionsWithHunk(lines))
    /\ \A k \in 1..Len(patches) :
          LET h == Nth(SectionsWithHunk(lines), k)
          IN  /\ Len(patches[k].Hunks) = Cardinality(SectionMarkers(lines, h))
              /\ SectionNewHeaders(lines, h) # {} =>
                    \E i \in SectionNewHeaders(lines, h) :
                        patches[k].FilePath =
                            TrimPrefix(SubSeq(lines[i], 5, Len(lines[i])), PrefixB)
    /\ \A h \in OldHeaderLines(lines) :
          LET before == parseUnifiedDiff(JoinNL(SubSeq(lines, 1, h - 1))).patches
          IN  /\ Len(before) <= Len(patches)
              /\ \A k \in 1..Len(before) : patches[k] = before[k]

\* C26: parseUnifiedDiff gives one patch, in input order, for every old-file
\* header line (the header "--- /dev/null" included) that is followed by a
\* hunk; the patch holds as many hunks as its section has hunk markers, its
\* path is the one of a "+++ " line of its own section, and the patches read
\* before a header line are the same whatever follows that line
C26_OnePatchPerHeader ==
    (Parsed /\ op.res.err = "" /\ OnlyFileHeaders(op.lines))
        => SectionsParsed(op.lines, op.res.patches)

\* the same for the diffs that have no "--- /dev/null" line
C26_OnePatchPerNamedHeader ==
    (Parsed /\ op.res.err = "" /\ OnlyFileHeaders(op.lines)
        /\ \A i \in 1..Len(op.lines) : op.lines[i] # LineOldNull)
        => SectionsParsed(op.lines, op.res.patches)

\* a new file's diff has been parsed: header, path, hunk and one added line
C26_Witness_NewFileDiff ==
    /\ Parsed
    /\ op.lines = <<LineOldNull, LineNewG, LineHunk, LineAdd>>



\* the locals of parseUnifiedDiff before it reads line k of lines
ParserBefore(lines, k) == ParseLines(ParserStart, SubSeq(lines, 1, k - 1), 1)

HunkOpen(st) == st.err = "" /\ st.inHunk /\ st.hasHunk

\* what the line does to the locals when it is a line of the open hunk
RecordedOrIgnored(st, line, k) ==
    IF line # <<>> /\ line[1] \in {"+", "-", " "}
    THEN ParseLine(st, line, k) =
            [st EXCEPT !.hunk.Lines =
                Append(st.hunk.Lines, Line(line[1], Tail(line)))]
    ELSE ParseLine(st, line, k) = st

\* the lines of the model that are file headers or hunk markers
StructureLines == {LineOldF, LineOldNull, LineNewG, LineHunk} \cup BadMarkers

\* C27: while a hunk is open, a line that starts with "+", "-" or a space is
\* appended to the hunk as an add, delete or context line whose text is the
\* rest of the line, whatever the text (the deleted line "-- x" and the added
\* line "++ y" included), and any other line leaves the parser as it was
C27_HunkLinesRecorded ==
    Parsed =>
        \A k \in 1..Len(op.lines) :
            (HunkOpen(ParserBefore(op.lines, k)) /\ op.lines[k] \notin StructureLines)
                => RecordedOrIgnored(ParserBefore(op.lines, k), op.lines[k], k)

\* the same for the lines whose text does not start with "-- " or "++ "
C27_PlainHunkLinesRecorded ==
    Parsed =>
        \A k \in 1..Len(op.lines) :
            (/\ HunkOpen(ParserBefore(op.lines, k))
             /\ op.lines[k] \notin StructureLines
             /\ op.lines[k] \notin {LineDelDashes, LineAddPluses})
                => RecordedOrIgnored(ParserBefore(op.lines, k), op.lines[k], k)

\* a hunk of two old lines whose first line deletes "-- x" has been parsed
C27_Witness_DashesDeleted ==
    /\ Parsed
    /\ op.lines = <<LineOldF, LineHunk, LineDelDashes, LineCtx>>



\* the hunk markers that are read while a patch is open
MarkersInPatch(lines) ==
    {k \in 1..Len(lines) :
        /\ HasPrefix(lines[k], HunkMarker)
        /\ \E h \in 1..(k - 1) : lines[h] \in {LineOldF, LineDelDashes}}

\* the markers among them that are not well formed: of the lines of the
\* model only LineHunk is "@@ -oldStart[,oldCount] +newStart[,newCount] @@"
\* with numbers in its fields
MalformedMarkers(lines) == {k \in MarkersInPatch(lines) : lines[k] # LineHunk}

FirstOf(S) == CHOOSE x \in S : \A y \in S : x <= y

\* the numbers of LineHunk
HunkNumbersFromHeader(h) ==
    h.OldStart = 1 /\ h.OldCount = 2 /\ h.NewStart = 3 /\ h.NewCount = 1

\* C28: a hunk marker inside a patch that is not a well-formed header makes
\* parseUnifiedDiff return the error that names the line of the marker; the
\* call never ends in a panic, and every hunk it returns has the numbers of
\* its header
C28_MalformedMarkerIsError ==
    Parsed =>
        /\ op.res.err # "panic"
        /\ MalformedMarkers(op.lines) # {} =>
              /\ op.res.err = "invalid format"
              /\ op.res.line = FirstOf(MalformedMarkers(op.lines))
        /\ \A k \in 1..Len(op.res.patches) :
              \A j \in 1..Len(op.res.patches[k].Hunks) :
                  HunkNumbersFromHeader(op.res.patches[k].Hunks[j])

\* the same for the markers that do not have two parts
C28_OnePartMarkerIsError ==
    (Parsed /\ \A k \in 1..Len(op.lines) : op.lines[k] \notin {LineBare, LineLetters})
        => /\ op.res.err # "panic"
           /\ MalformedMarkers(op.lines) # {} =>
                 /\ op.res.err = "invalid format"
                 /\ op.res.line = FirstOf(MalformedMarkers(op.lines))
           /\ \A k \in 1..Len(op.res.patches) :
                 \A j \in 1..Len(op.res.patches[k].Hunks) :
                     HunkNumbersFromHeader(op.res.patches[k].Hunks[j])



-----------------------------------------------------------------------------
(* SpecOrder: ApplyUnifiedDiff on the text of a diff whose hunks are in any *)
(* order *)

\* the bytes of the characters that the lines of the model's hunks hold
ByteOf ==
    [ch \in DOMAIN DigitValue \cup {" ", "+", "-", "/", "x", "y"} |->
        CASE ch = " " -> 32 [] ch = "+" -> 43 [] ch = "-" -> 45 [] ch = "/" -> 47
          [] ch = "x" -> 120 [] ch = "y" -> 121
          [] OTHER -> 48 + DigitValue[ch]]

\* []byte(s)
Bytes(s) == [i \in 1..Len(s) |-> ByteOf[s[i]]]

\* a patch of parseUnifiedDiff as ApplyUnifiedDiff uses it: FilePath is a
\* path for sanitizePath and the text of a line is bytes of the file
PatchOfText(p) ==
    [FilePath |-> Path(HasPrefix(p.FilePath, <<"/">>), Split(p.FilePath, <<"/">>, <<>>)),
     IsNewFile |-> p.IsNewFile,
     Hunks |-> [j \in 1..Len(p.Hunks) |->
                  [p.Hunks[j] EXCEPT !.Lines =
                      [n \in 1..Len(p.Hunks[j].Lines) |->
                          Line(p.Hunks[j].Lines[n].Type,
                               Bytes(p.Hunks[j].Lines[n].Text))]]]]

PatchesOfText(patches) == [k \in 1..Len(patches) |-> PatchOfText(patches[k])]

MaxOrderHunks == 4

\* the files of the specification: four lines, three lines, and four lines
\* without a final newline
OrderFiles ==
    {Bytes(<<"1">>) \o <<NL>> \o Bytes(<<"2">>) \o <<NL>> \o Bytes(<<"3">>) \o <<NL>>
        \o Bytes(<<"4">>) \o <<NL>>,
     Bytes(<<"1">>) \o <<NL>> \o Bytes(<<"2">>) \o <<NL>> \o Bytes(<<"3">>) \o <<NL>>,
     Bytes(<<"1">>) \o <<NL>> \o Bytes(<<"2">>) \o <<NL>> \o Bytes(<<"3">>) \o <<NL>>
        \o Bytes(<<"4">>)}

\* the hunks of the specification in ascending oldStart: line 1 replaced,
\* line 2 deleted, line 3 replaced, a line added after line 4
OrderHunks ==
    << <<<<"@", "@", " ", "-", "1", " ", "+", "1", " ", "@", "@">>, <<"-", "1">>, <<"+", "7">>>>,
       <<<<"@", "@", " ", "-", "2", " ", "+", "2", " ", "@", "@">>, <<"-", "2">>>>,
       <<<<"@", "@", " ", "-", "3", " ", "+", "3", " ", "@", "@">>, <<"-", "3">>, <<"+", "8">>>>,
       <<<<"@", "@", " ", "-", "4", " ", "+", "4", " ", "@", "@">>, <<" ", "4">>, <<"+", "6">>>> >>

\* the orders in which a diff lists some of the hunks, each once
HunkOrders ==
    {o \in SeqsUpTo(1..MaxOrderHunks, MaxOrderHunks) :
        /\ o # <<>>
        /\ \A i \in 1..Len(o) : o[i] <= Len(OrderHunks)
        /\ \A i, j \in 1..Len(o) : i # j => o[i] # o[j]}

\* the same hunks in ascending order
RECURSIVE AscendingOrder(_, _)
AscendingOrder(o, n) ==
    IF n > Len(OrderHunks) THEN <<>>
    ELSE (IF \E i \in 1..Len(o) : o[i] = n THEN <<n>> ELSE <<>>)
            \o AscendingOrder(o, n + 1)

\* the text of the diff of f that lists the hunks in the order o
OrderDiffText(o) ==
    JoinNL(<<LineOldF, <<"+", "+", "+", " ", "b", "/", "f">>>> \o Concat([i \in 1..Len(o) |-> OrderHunks[o[i]]]))

InitOrder ==
    /\ cfg = DefaultCfg
    /\ allowedCommands = NewAllowedCommands(<<>>)
    /\ dirent = Tree({<<Root, DirNode>>, <<AbsF, FileNode(1)>>})
    /\ \E content \in OrderFiles : inodes = (1 :> [c |-> content, d |-> content])
    /\ sp = NoCall
    /\ wr = NoWrites /\ rd = NoCall /\ ad = IdleAd /\ ex = IdleEx /\ child = IdleChild
    /\ q = NoCall /\ op = NoCall /\ srv = NoServer /\ rl = NoReloader

\* ApplyUnifiedDiff(ctx, diffText, false), lines 34-41: the text is parsed
\* and a parse error is returned at once. op keeps the arguments of the call
ApplyTextBegin(diffText, call) ==
    /\ ad.pc = "idle" /\ op.pc = "idle"
    /\ \E r \in {parseUnifiedDiff(diffText)} :
          /\ op' = call
          /\ ad' = IF r.err # ""
                   THEN [IdleAd EXCEPT !.pc = "done", !.errRet = "parse"]
                   ELSE [IdleAd EXCEPT !.pc = "loop",
                                       !.patches = PatchesOfText(r.patches),
                                       !.dryRun = FALSE, !.ctxDone = FALSE,
                                       !.i = 1]
    /\ UNCHANGED <<cfg, allowedCommands, dirent, inodes, sp, wr, rd, ex, child, q, srv, rl>>

ApplyUnifiedDiffText ==
    \E o \in HunkOrders :
        ApplyTextBegin(OrderDiffText(o),
                       [pc |-> "called", name |-> "ApplyUnifiedDiff", order |-> o,
                        original |-> ContentAt(dirent, inodes, AbsF)])

NextOrder ==
    \/ ApplyUnifiedDiffText
    \/ ApplyPatchCheck
    \/ ApplyBackup
    \/ ApplyOpen
    \/ ApplyWrite
    \/ ApplyWriteFails
    \/ ApplyCommit
    \/ ApplyReturn

SpecOrder == InitOrder /\ [][NextOrder]_vars

\* the call on the text has returned without an error
OrderApplied == op.pc = "called" /\ ad.pc = "done" /\ ad.errRet = ""

\* the content that the hunks of the order o make of a file when they are
\* applied one after the other as listed
PatchedInOrder(original, o) ==
    applyPatchToContent(original,
        [Hunks |-> [i \in 1..Len(o) |->
            Hunk(o[i], 1, o[i], 1,
                 [n \in 1..(Len(OrderHunks[o[i]]) - 1) |->
                     Line(OrderHunks[o[i]][n + 1][1],
                          Bytes(Tail(OrderHunks[o[i]][n + 1])))])]])

\* C29: whatever the order of the hunks in the text, ApplyUnifiedDiff leaves
\* in the file the content that the hunks give when they are applied in
\* ascending oldStart, which is the content that the diff listing them in
\* ascending order gives
C29_AscendingWhateverTheOrder ==
    OrderApplied =>
        ContentAt(dirent, inodes, AbsF)
            = PatchedInOrder(op.original, AscendingOrder(op.order, 1))

\* the diff that lists the hunks of lines 3 and 1, in that order, has been
\* applied to the file of four lines
C29_Witness_Descending ==
    /\ OrderApplied
    /\ op.order = <<3, 1>>
    /\ ContentAt(dirent, inodes, AbsF)
          = Bytes(<<"7">>) \o <<NL>> \o Bytes(<<"2">>) \o <<NL>> \o Bytes(<<"8">>)
              \o <<NL>> \o Bytes(<<"4">>) \o <<NL>>



-----------------------------------------------------------------------------
(* SpecNew: ApplyUnifiedDiff on diffs of a file that exists, f, and of one  *)
(* that does not, g *)

AbsG == Append(Root, NameG)

\* the file f of two lines
NewOld == Bytes(<<"1">>) \o <<NL>> \o Bytes(<<"2">>) \o <<NL>>

NewHeaders ==
    {<<LineOldF, <<"+", "+", "+", " ", "b", "/", "f">>>>, <<<<"-", "-", "-", " ", "a", "/", "g">>, LineNewG>>}

\* one hunk at line 1: an added line; a deleted and an added line; a context
\* and an added line; a deleted line; nothing
NewBodies ==
    {<<LineAdd>>, <<<<"-", "1">>, LineAdd>>, <<<<" ", "1">>, LineAdd>>, <<<<"-", "1">>>>, <<>>}

\* a second hunk, at line 2, that deletes or adds
NewSecondHunks == {<<>>, <<<<"@", "@", " ", "-", "2", " ", "+", "2", " ", "@", "@">>, <<"-", "2">>>>, <<<<"@", "@", " ", "-", "2", " ", "+", "2", " ", "@", "@">>, LineAdd>>}

NewSections ==
    {h \o <<<<"@", "@", " ", "-", "1", " ", "+", "1", " ", "@", "@">>>> \o b \o t : h \in NewHeaders, b \in NewBodies, t \in NewSecondHunks}

\* the diffs of the specification: one section, or a section of g and then
\* one of f
NewDiffs ==
    NewSections
        \cup {a \o b : a \in {x \in NewSections : x[1] = <<"-", "-", "-", " ", "a", "/", "g">> /\ Len(x) <= 4},
                       b \in {x \in NewSections : x[1] = LineOldF /\ Len(x) = 5}}

InitNew ==
    /\ cfg = DefaultCfg
    /\ allowedCommands = NewAllowedCommands(<<>>)
    /\ dirent = Tree({<<Root, DirNode>>, <<AbsF, FileNode(1)>>})
    /\ inodes = (1 :> [c |-> NewOld, d |-> NewOld])
    /\ sp = NoCall
    /\ wr = NoWrites /\ rd = NoCall /\ ad = IdleAd /\ ex = IdleEx /\ child = IdleChild
    /\ q = NoCall /\ op = NoCall /\ srv = NoServer /\ rl = NoReloader

ApplyUnifiedDiffNew ==
    \E lines \in NewDiffs :
        ApplyTextBegin(JoinNL(lines),
                       [pc |-> "called", name |-> "ApplyUnifiedDiff", lines |-> lines])

NextNew ==
    \/ ApplyUnifiedDiffNew
    \/ ApplyPatchCheck
    \/ ApplyBackup
    \/ ApplyOpen
    \/ ApplyWrite
    \/ ApplyWriteFails
    \/ ApplyCommit
    \/ ApplyReturn

SpecNew == InitNew /\ [][NextNew]_vars

HasDeleteLine(patch) ==
    \E j \in 1..Len(patch.Hunks) : \E n \in 1..Len(patch.Hunks[j].Lines) :
        patch.Hunks[j].Lines[n].Type = "-"

\* the patch that the loop of ApplyUnifiedDiff is at
AtPatch == ad.pc # "idle" /\ ad.i \in 1..Len(ad.patches)

GExists(fs) == Stat(fs, AbsG).err # "notexist"

\* the call has stopped at a patch of g that has a delete line
DeleteOfMissing ==
    /\ AtPatch
    /\ ad.patches[ad.i].FilePath = PathG
    /\ HasDeleteLine(ad.patches[ad.i])
    /\ ad.pc \in {"return", "done"}

C30_Witness_Created ==
    /\ ad.pc = "done" /\ ad.errRet = ""
    /\ op.pc = "called" /\ op.name = "ApplyUnifiedDiff"
    /\ ContentAt(dirent, inodes, AbsG) = Bytes(<<"5">>) \o <<NL>>



-----------------------------------------------------------------------------
(* SpecNewline: applyPatchToContent on files with empty lines and on patches *)
(* with empty lines *)

\* the most lines of a file, and of a hunk, of this specification
MaxNewlineLines == 2

NewlineTexts == {<<>>, <<1>>}

NewlineOriginals ==
    {FileOf(texts, nl) : texts \in SeqsUpTo(NewlineTexts, MaxNewlineLines),
                         nl \in BOOLEAN}

NewlineLines == {Line(type, text) : type \in {" ", "-", "+"}, text \in NewlineTexts}

NewlinePatches ==
    {<<HunkAt(a, ls)>> : a \in 0..MaxNewlineLines,
                         ls \in SeqsUpTo(NewlineLines, MaxNewlineLines)}

NewlinePatchCall ==
    /\ op.pc = "idle"
    /\ \E original \in NewlineOriginals, hunks \in NewlinePatches :
          op' = [pc |-> "done", name |-> "applyPatchToContent", original |-> original,
                 hunks |-> hunks,
                 res |-> applyPatchToContent(original, DiffPatch(PathF, hunks))]
    /\ UNCHANGED <<cfg, allowedCommands, dirent, inodes, sp, wr, rd, ad, ex, child, q, srv, rl>>

NextNewline == NewlinePatchCall \/ OpReturn

SpecNewline == InitPatch /\ [][NextNewline]_vars

Patched == op.pc = "done" /\ op.name = "applyPatchToContent"

EndsWithNL(content) == content # <<>> /\ Last(content) = NL

\* an empty line in the original, or an add or context line of the patch
\* whose text is empty
HoldsEmptyLine(original, hunks) ==
    \/ \E i \in 1..Len(LinesOf(original)) : LinesOf(original)[i] = <<>>
    \/ \E j \in 1..Len(hunks) : \E n \in 1..Len(hunks[j].Lines) :
          hunks[j].Lines[n].Type \in {"+", " "} /\ hunks[j].Lines[n].Text = <<>>

\* C31, as stated: the content returned ends with a newline if and only if
\* the original ends with a newline
C31_AsStated ==
    Patched => (EndsWithNL(op.res) <=> EndsWithNL(op.original))

\* C31: when the original ends with a newline the content returned is empty
\* or ends with a newline; when the original is empty the content returned
\* is empty or ends with a newline; when the original is not empty and does
\* not end with a newline the content returned ends with a newline only if
\* the original or the patch holds an empty line
C31_NewlineKept ==
    Patched =>
        /\ (EndsWithNL(op.original) \/ op.original = <<>>)
              => (op.res = <<>> \/ EndsWithNL(op.res))
        /\ (op.original # <<>> /\ ~EndsWithNL(op.original) /\ EndsWithNL(op.res))
              => HoldsEmptyLine(op.original, op.hunks)

\* a line has been added to a file of two lines that has no final newline
C31_Witness_NoFinalNewline ==
    /\ Patched
    /\ op.original = <<1, NL, 1>>
    /\ op.hunks = <<HunkAt(2, <<Line("+", <<1>>)>>)>>
    /\ op.res = <<1, NL, 1, NL, 1>>



-----------------------------------------------------------------------------
(* SpecDrop: applyPatchToContent on patches whose add and context lines     *)
(* have texts that no line of the file has *)

\* the most lines of a file, and of a hunk, of this specification
MaxDropLines == 2

DropTexts == {<<1>>, <<2>>}
DropAdded == <<3>>
DropContext == <<4>>

DropOriginals ==
    {FileOf(texts, nl) : texts \in SeqsUpTo(DropTexts, MaxDropLines), nl \in BOOLEAN}

DropLines ==
    {Line("-", text) : text \in DropTexts}
        \cup {Line("+", DropAdded), Line(" ", DropContext)}

\* one hunk, or two hunks of one line each in any order of their starts
DropPatches ==
    {<<HunkAt(a, ls)>> : a \in 0..(MaxDropLines + 1),
                         ls \in SeqsUpTo(DropLines, MaxDropLines)}
    \cup {<<HunkAt(a, <<l>>), HunkAt(b, <<k>>)>> :
            a \in 0..(MaxDropLines + 1), b \in 0..(MaxDropLines + 1),
            l \in DropLines, k \in DropLines}

DropPatchCall ==
    /\ op.pc = "idle"
    /\ \E original \in DropOriginals, hunks \in DropPatches :
          op' = [pc |-> "done", name |-> "applyPatchToContent", original |-> original,
                 hunks |-> hunks,
                 res |-> applyPatchToContent(original, DiffPatch(PathF, hunks))]
    /\ UNCHANGED <<cfg, allowedCommands, dirent, inodes, sp, wr, rd, ad, ex, child, q, srv, rl>>

NextDrop == DropPatchCall \/ OpReturn

SpecDrop == InitPatch /\ [][NextDrop]_vars

\* the places of the original that the delete lines of a hunk match: the
\* cursor is on a line of the file, a delete line whose text is that of the
\* line takes it and moves on, a delete line of another text does nothing,
\* a context line moves on, an add line does nothing
RECURSIVE MatchedByLines(_, _, _, _)
MatchedByLines(texts, lines, cursor, matched) ==
    IF lines = <<>> THEN [n |-> cursor, matched |-> matched]
    ELSE IF cursor > Len(texts) \/ Head(lines).Type = "+"
    THEN MatchedByLines(texts, Tail(lines), cursor, matched)
    ELSE IF Head(lines).Type = " "
    THEN MatchedByLines(texts, Tail(lines), cursor + 1, matched)
    ELSE IF Head(lines).Text = texts[cursor]
    THEN MatchedByLines(texts, Tail(lines), cursor + 1, matched \cup {cursor})
    ELSE MatchedByLines(texts, Tail(lines), cursor, matched)

\* the same for the hunks in turn: a hunk moves the cursor forward to its
\* OldStart, never back
RECURSIVE MatchedByHunks(_, _, _, _)
MatchedByHunks(texts, hunks, cursor, matched) ==
    IF hunks = <<>> THEN matched
    ELSE LET r == MatchedByLines(texts, Head(hunks).Lines,
                                 Max(cursor, Head(hunks).OldStart), matched)
         IN  MatchedByHunks(texts, Tail(hunks), r.n, r.matched)

\* the lines of a sequence at the places that are not in the set
RECURSIVE Without(_, _, _)
Without(texts, places, i) ==
    IF i > Len(texts) THEN <<>>
    ELSE (IF i \in places THEN <<>> ELSE <<texts[i]>>) \o Without(texts, places, i + 1)

\* the lines of the output that are lines of the file
OriginalLinesOfOutput(content) ==
    SelectSeq(LinesOf(content), LAMBDA t : t \in DropTexts)

\* C32: the output without its add lines and without the context lines made
\* past the end of the original is the original, in order, without the
\* lines that delete lines matched while the cursor was on them
C32_OnlyMatchedDropped ==
    Patched =>
        OriginalLinesOfOutput(op.res)
            = Without(LinesOf(op.original),
                      MatchedByHunks(LinesOf(op.original), op.hunks, 1, {}), 1)

\* a delete line of another text, then one that matches: line 1 is dropped
\* and nothing else
C32_Witness_SecondDeleteMatches ==
    /\ Patched
    /\ op.original = <<1, NL, 2, NL>>
    /\ op.hunks = <<HunkAt(1, <<Line("-", <<2>>), Line("-", <<1>>)>>)>>
    /\ op.res = <<2, NL>>



\* ApplyUnifiedDiff is between the check of a patch of an existing file and
\* the end of that patch
PatchingExisting == ad.pc \in {"backup", "open", "write", "commit"} /\ ad.statOk

\* C33: while ApplyUnifiedDiff patches an existing file, the target holds
\* the complete content it had before the patch or the complete patched
\* content: it is never missing and never partly written
C33_TargetOldOrPatched ==
    PatchingExisting =>
        ContentAt(dirent, inodes, ad.absPath) \in {ad.pre, ad.patched}



-----------------------------------------------------------------------------
(* SpecSibling: one call of WriteFile, SearchAndReplace or ApplyUnifiedDiff *)
(* in a directory that holds f and files named f.tmp and f.bak *)

\* what the sibling f.bak holds before the call
BakData == <<6>>

SiblingTargets == {PathF, PathG}
SiblingDiffs == {<<PatchModF>>, <<PatchAddF>>, <<PatchNewG>>}

\* the files that exist before the call, and what they hold
SiblingBefore ==
    (AbsF :> DiffOld) @@ (tmpPathOf(AbsF) :> StrayData)
        @@ (backupPathOf(AbsF) :> BakData)

InitSibling ==
    /\ cfg = DefaultCfg
    /\ allowedCommands = NewAllowedCommands(<<>>)
    /\ dirent = Tree({<<Root, DirNode>>, <<AbsF, FileNode(1)>>,
                      <<tmpPathOf(AbsF), FileNode(2)>>,
                      <<backupPathOf(AbsF), FileNode(3)>>})
    /\ inodes = [i \in 1..3 |->
                    IF i = 1 THEN [c |-> DiffOld, d |-> DiffOld]
                    ELSE IF i = 2 THEN [c |-> StrayData, d |-> StrayData]
                    ELSE [c |-> BakData, d |-> BakData]]
    /\ sp = NoCall
    /\ wr = NoWrites /\ rd = NoCall /\ ad = IdleAd /\ ex = IdleEx /\ child = IdleChild
    /\ q = NoCall /\ op = NoCall /\ srv = NoServer /\ rl = NoReloader

SiblingWriteFileCall ==
    /\ BlockQuiet
    /\ \E path \in SiblingTargets, data \in Datas, allowCreate \in BOOLEAN :
          WriteFileBegin(1, path, data, allowCreate, FALSE)

SiblingSearchAndReplaceCall ==
    /\ BlockQuiet
    /\ \E path \in SiblingTargets, old \in {<<2>>, <<4>>}, expectedOccurrences \in 0..2 :
          \E r \in {SearchAndReplace(dirent, inodes, cfg, path, old, <<7>>,
                                     expectedOccurrences, -1, FALSE)} :
              /\ op' = [pc |-> "done", name |-> "SearchAndReplace", path |-> path,
                        old |-> old, new |-> <<7>>, ctxDone |-> FALSE,
                        expectedOccurrences |-> expectedOccurrences,
                        actualOccurrences |-> r.actualOccurrences, err |-> r.err]
              /\ dirent' = r.fs
              /\ inodes' = r.ino
    /\ UNCHANGED <<cfg, allowedCommands, sp, wr, rd, ad, ex, child, q, srv, rl>>

SiblingApplyUnifiedDiffCall ==
    /\ BlockQuiet
    /\ \E patches \in SiblingDiffs : ApplyBegin(patches, FALSE, FALSE)

\* one call, step by step; nothing is called after it
NextSibling ==
    \/ SiblingWriteFileCall
    \/ WriteStep(1)
    \/ SiblingSearchAndReplaceCall
    \/ SiblingApplyUnifiedDiffCall
    \/ ApplyPatchCheck
    \/ ApplyBackup
    \/ ApplyOpen
    \/ ApplyWrite
    \/ ApplyWriteFails
    \/ ApplyCommit
    \/ ApplyReturn

SpecSibling == InitSibling /\ [][NextSibling]_vars

\* the call has returned with success, and the absolute path of its target
WriteFileSucceeded == wr[1].pc = "done" /\ wr[1].err = ""
ReplaceSucceeded ==
    /\ op.pc = "done" /\ op.name = "SearchAndReplace" /\ op.err = ""
    /\ op.expectedOccurrences > 0
DiffSucceeded == ad.pc = "done" /\ ad.errRet = "" /\ ad.appliedFiles # <<>>

\* every file that existed before the call, but the target, is as it was
OthersKept(target) ==
    \A p \in DOMAIN SiblingBefore \ {target} :
        ContentAt(dirent, inodes, p) = SiblingBefore[p]

\* C34: after a successful WriteFile, SearchAndReplace or ApplyUnifiedDiff
\* on a target every other file that existed before the call, the siblings
\* named target.tmp and target.bak included, exists and holds what it held
C34_OthersUnchanged ==
    /\ WriteFileSucceeded => OthersKept(wr[1].absPath)
    /\ ReplaceSucceeded => OthersKept(Join(Root, op.path).comps)
    /\ DiffSucceeded => OthersKept(Join(Root, ad.appliedFiles[1]).comps)

\* the same for the calls whose target is g, which has no sibling g.tmp or
\* g.bak before the call
C34_UnrelatedUnchanged ==
    /\ (WriteFileSucceeded /\ wr[1].absPath = AbsG) => OthersKept(AbsG)
    /\ (ReplaceSucceeded /\ op.path = PathG) => OthersKept(AbsG)
    /\ (DiffSucceeded /\ ad.appliedFiles[1] = PathG) => OthersKept(AbsG)




-----------------------------------------------------------------------------
(* SpecAllowList: sanitizePath with cfg.AllowedPaths = [d], in a root that  *)
(* holds the directories d and dx *)

\* a name that begins with the characters of the allowed entry d
NameDX == <<"d", "x">>

\* the most components of a path of this specification
MaxAllowPathLen == 2

\* the root holds d, dx, a file n in each of them and beside them, and the
\* name l, which may be a symlink to d or to dx
AllowTrees ==
    { Tree({<<Root, DirNode>>, <<Outside, DirNode>>,
            <<Append(Root, NameD), DirNode>>,
            <<Append(Root, NameDX), DirNode>>,
            <<Append(Root, NameN), FileNode(1)>>,
            <<Append(Append(Root, NameD), NameN), FileNode(2)>>} \cup xs \cup ls) :
        xs \in {{}, {<<Append(Append(Root, NameDX), NameN), FileNode(3)>>}},
        ls \in {{}} \cup {{<<Append(Root, NameL), LinkNode(t)>>} :
                            t \in {Append(Root, NameD), Append(Root, NameDX)}} }

AllowPathInputs ==
    {Path(FALSE, cs) : cs \in SeqsUpTo({NameD, NameDX, NameN, NameL, DotDot},
                                       MaxAllowPathLen)}
    \cup {Path(TRUE, Root \o cs) : cs \in SeqsUpTo({NameD, NameDX, NameN},
                                                   MaxAllowPathLen)}

InitAllowList ==
    /\ cfg = Cfg(<<Path(FALSE, <<NameD>>)>>, <<>>, 2, 2)
    /\ allowedCommands = NewAllowedCommands(<<>>)
    /\ dirent \in AllowTrees
    /\ inodes = EmptyInodes(dirent)
    /\ sp = NoCall
    /\ wr = NoWrites /\ rd = NoCall /\ ad = IdleAd /\ ex = IdleEx /\ child = IdleChild
    /\ q = NoCall /\ op = NoCall /\ srv = NoServer /\ rl = NoReloader

AllowListSanitizePathCall ==
    /\ sp.pc = "idle"
    /\ \E p \in AllowPathInputs :
          sp' = [pc |-> "done", path |-> p, res |-> sanitizePath(dirent, cfg, p)]
    /\ UNCHANGED <<cfg, allowedCommands, dirent, inodes, wr, rd, ad, ex, child, q, op, srv, rl>>

NextAllowList == AllowListSanitizePathCall \/ SanitizePathReturn

SpecAllowList == InitAllowList /\ [][NextAllowList]_vars

\* the path is the entry or lies beneath it, component by component
WithinEntry(abs, entry) ==
    Len(entry) <= Len(abs) /\ SubSeq(abs, 1, Len(entry)) = entry

\* the path sanitizePath has accepted
Accepted == sp.pc = "done" /\ sp.res.ok

\* C35: with an AllowList configured, sanitizePath accepts a path only if
\* the location it resolves to is an allowed entry or a descendant of one
C35_OnlyWithinAllowed ==
    (Accepted /\ Len(cfg.AllowedPaths) > 0)
        => \E i \in 1..Len(cfg.AllowedPaths) :
              WithinEntry(sp.res.abs, AbsAllowed(cfg.AllowedPaths[i]))

\* what the code gives: the accepted location is within an entry, or the
\* name of its component at the place of the entry's last one begins with
\* the characters of that component
C35_WithinOrSameLetters ==
    (Accepted /\ Len(cfg.AllowedPaths) > 0)
        => \E i \in 1..Len(cfg.AllowedPaths) :
              LET entry == AbsAllowed(cfg.AllowedPaths[i])
              IN  /\ Len(entry) <= Len(sp.res.abs)
                  /\ SubSeq(sp.res.abs, 1, Len(entry) - 1) = Front(entry)
                  /\ HasPrefix(sp.res.abs[Len(entry)], Last(entry))


\* ---------------------------------------------------------------------------
\* config.Reloader (internal/workspace/shield_test.go:88-234)
\* ---------------------------------------------------------------------------

\* the calls of Start and Stop in one behaviour
MaxReloaderCalls == 4
\* the writes of the config file in one behaviour
MaxConfigWrites == 3

\* the reload goroutines: one per event of the config file
ReloadIds == 1..MaxConfigWrites

\* shield_test.go:99-132: the reloader NewReloader returns. The config file
\* holds version 0, which is the configuration the reloader was given.
\*   running, stopClosed, watcherClosed: r.running, r.stopChan, r.watcher
\*   loops: the watchLoop goroutines that have not returned
\*   calls, last: the calls of Start and Stop made, and the last one
\*   file: the content of the config file, and whether it loads and validates
\*   events: the names in watcher.Events; reloads: the goroutines of line 175
\*   snapshot: r.cfg, as the version of the content it was loaded from
NewReloader ==
    [pc |-> "made", running |-> FALSE, stopClosed |-> FALSE, watcherClosed |-> FALSE,
     loops |-> 0, calls |-> 0, last |-> [name |-> "", err |-> FALSE, was |-> FALSE],
     panicked |-> FALSE,
     file |-> [ver |-> 0, ok |-> TRUE], events |-> <<>>, triggered |-> 0,
     reloads |-> [i \in ReloadIds |-> [pc |-> "none", read |-> 0]],
     snapshot |-> 0, failed |-> 0]

RlUnchanged ==
    UNCHANGED <<cfg, allowedCommands, dirent, inodes, sp, wr, rd, ad, ex, child, q, op, srv>>

\* the process is alive and the reloader exists
ReloaderAlive == rl.pc = "made" /\ ~rl.panicked

\* shield_test.go:135-143: Start
Start ==
    /\ ReloaderAlive
    /\ rl.calls < MaxReloaderCalls
    /\ rl' = IF rl.running
             THEN [rl EXCEPT !.calls = @ + 1,
                             !.last = [name |-> "Start", err |-> TRUE, was |-> TRUE]]
             ELSE [rl EXCEPT !.calls = @ + 1,
                             !.last = [name |-> "Start", err |-> FALSE, was |-> FALSE],
                             !.running = TRUE,
                             !.loops = @ + 1]
    /\ RlUnchanged

\* shield_test.go:146-153: Stop. close of a closed channel panics, and nothing
\* recovers it: the process dies at line 150.
Stop ==
    /\ ReloaderAlive
    /\ rl.calls < MaxReloaderCalls
    /\ rl' = IF ~rl.running
             THEN [rl EXCEPT !.calls = @ + 1,
                             !.last = [name |-> "Stop", err |-> TRUE, was |-> FALSE]]
             ELSE IF rl.stopClosed
             THEN [rl EXCEPT !.calls = @ + 1,
                             !.last = [name |-> "Stop", err |-> FALSE, was |-> TRUE],
                             !.panicked = TRUE]
             ELSE [rl EXCEPT !.calls = @ + 1,
                             !.last = [name |-> "Stop", err |-> FALSE, was |-> TRUE],
                             !.stopClosed = TRUE,
                             !.running = FALSE,
                             !.watcherClosed = TRUE]
    /\ RlUnchanged

\* shield_test.go:159-164: a watchLoop finds r.stopChan or watcher.Events closed
watchLoopReturns ==
    /\ ReloaderAlive
    /\ rl.loops > 0
    /\ rl.stopClosed \/ rl.watcherClosed
    /\ rl' = [rl EXCEPT !.loops = @ - 1]
    /\ RlUnchanged

\* a write of the config file (other = FALSE) or of another file of its
\* directory; the watcher of line 126 reports it while it is open
ConfigWritten ==
    /\ ReloaderAlive
    /\ rl.file.ver < MaxConfigWrites
    /\ \E ok \in BOOLEAN :
           rl' = [rl EXCEPT !.file = [ver |-> rl.file.ver + 1, ok |-> ok],
                            !.events = IF rl.watcherClosed THEN @ ELSE Append(@, "config")]
    /\ RlUnchanged

OtherFileWritten ==
    /\ ReloaderAlive
    /\ ~rl.watcherClosed
    /\ Len(rl.events) < MaxConfigWrites
    /\ rl' = [rl EXCEPT !.events = Append(@, "other")]
    /\ RlUnchanged

\* shield_test.go:161-182: a watchLoop receives an event; for the config file
\* it starts a goroutine that reloads
watchLoopEvent ==
    /\ ReloaderAlive
    /\ rl.loops > 0
    /\ ~rl.watcherClosed
    /\ rl.events # <<>>
    /\ rl' = IF Head(rl.events) = "config"
             THEN [rl EXCEPT !.events = Tail(@),
                             !.triggered = @ + 1,
                             !.reloads[rl.triggered + 1] = [pc |-> "load", read |-> 0]]
             ELSE [rl EXCEPT !.events = Tail(@)]
    /\ RlUnchanged

\* shield_test.go:196-211: reload loads and validates what the file holds now
reloadLoad(i) ==
    /\ ReloaderAlive
    /\ rl.reloads[i].pc = "load"
    /\ rl' = IF rl.file.ok
             THEN [rl EXCEPT !.reloads[i] = [pc |-> "install", read |-> rl.file.ver]]
             ELSE [rl EXCEPT !.reloads[i] = [pc |-> "failed", read |-> 0],
                             !.failed = @ + 1]
    /\ RlUnchanged

\* shield_test.go:214-226: reload installs what it loaded; no callback is registered
reloadInstall(i) ==
    /\ ReloaderAlive
    /\ rl.reloads[i].pc = "install"
    /\ rl' = [rl EXCEPT !.reloads[i].pc = "done",
                        !.snapshot = rl.reloads[i].read]
    /\ RlUnchanged

\* shield_test.go:230-234
GetConfig == rl.snapshot

InitReloader ==
    /\ cfg = DefaultCfg
    /\ allowedCommands = NewAllowedCommands(<<>>)
    /\ dirent = Tree({<<Root, DirNode>>})
    /\ inodes = EmptyInodes(dirent)
    /\ sp = NoCall
    /\ wr = NoWrites /\ rd = NoCall /\ ad = IdleAd /\ ex = IdleEx /\ child = IdleChild
    /\ q = NoCall /\ op = NoCall /\ srv = NoServer
    /\ rl = NewReloader

NextReloader ==
    \/ Start
    \/ Stop
    \/ watchLoopReturns
    \/ ConfigWritten
    \/ OtherFileWritten
    \/ watchLoopEvent
    \/ \E i \in ReloadIds : reloadLoad(i)
    \/ \E i \in ReloadIds : reloadInstall(i)

SpecReloader == InitReloader /\ [][NextReloader]_vars

\* the last call returned what the claim says: an error exactly when Start
\* found the reloader running or Stop found it stopped
LastCallAsStated ==
    rl.last.name # "" =>
        rl.last.err = (IF rl.last.name = "Start" THEN rl.last.was ELSE ~rl.last.was)

\* no watchLoop is about to return
LoopsSettled == ~(rl.loops > 0 /\ (rl.stopClosed \/ rl.watcherClosed))

\* one loop while running, none while stopped
OneLoopWhileRunning == rl.loops = (IF rl.running THEN 1 ELSE 0)

\* C36: in any sequence of Start and Stop calls, Start on a running reloader
\* and Stop on a stopped one return an error and change nothing, every other
\* call succeeds, no call panics, and once the loops have settled exactly one
\* watch loop is active after a successful Start and none after a Stop.
C36_StartStopSequences ==
    rl.pc = "made" =>
        /\ ~rl.panicked
        /\ LastCallAsStated
        /\ LoopsSettled => OneLoopWhileRunning

\* the same up to the first Start that follows a Stop
C36_UntilRestarted ==
    (ReloaderAlive /\ ~(rl.stopClosed /\ rl.running)) =>
        /\ LastCallAsStated
        /\ LoopsSettled => OneLoopWhileRunning

\* Start, Stop, Start: the reloader says it runs and no loop is left
C36_Witness_RestartedWithoutLoop ==
    /\ ReloaderAlive /\ rl.running /\ rl.stopClosed /\ rl.loops = 0 /\ rl.calls = 3

\* Start, Stop, Start, Stop: the second Stop panics
C36_Witness_SecondStopPanics ==
    rl.pc = "made" /\ rl.panicked /\ rl.calls = 4

\* every config event was taken by a watchLoop and every reload has finished
ReloadsFinished ==
    /\ rl.events = <<>>
    /\ rl.triggered = rl.file.ver
    /\ \A i \in ReloadIds : rl.reloads[i].pc \in {"none", "failed", "done"}

\* C37: when reloads triggered by successive writes run concurrently, once all
\* of them have finished GetConfig returns the configuration of the latest
\* content of the file.
C37_LatestContentWins ==
    (ReloaderAlive /\ ReloadsFinished /\ rl.file.ok) => GetConfig = rl.file.ver

\* C37, second part: a reload that read older content never replaces a
\* snapshot made from newer content
C37_NeverOlder == [][rl.pc = "made" => rl'.snapshot >= rl.snapshot]_vars

\* C37, third part: a reload that fails to load or validate leaves the
\* snapshot as it was
C37_FailedReloadKeeps ==
    [][(rl.pc = "made" /\ rl'.failed > rl.failed) => rl'.snapshot = rl.snapshot]_vars

\* the snapshot is always the initial configuration or one that some reload
\* loaded from the file
C37_SnapshotWasLoaded ==
    rl.pc = "made" =>
        \/ GetConfig = 0
        \/ \E i \in ReloadIds : rl.reloads[i].pc = "done" /\ rl.reloads[i].read = GetConfig

\* two reloads have finished and the snapshot is older than the file
C37_Witness_OlderInstalledLast ==
    /\ ReloaderAlive /\ ReloadsFinished /\ rl.file.ok
    /\ rl.file.ver = 2 /\ GetConfig = 1


-----------------------------------------------------------------------------
(* SpecToolCall: the server with workspace.secure_exec calls that take time *)

\* the values of timeoutSeconds the caller passes, in steps of the clock:
\* one minute, and a minute more than idleTimeout
ToolTimeouts == {Minute, idleTimeout + Minute}

\* register_tools.go:172-174: the handler of workspace.secure_exec calls
\* onActivity and then Execute, which runs the command until it exits or
\* until timeoutSeconds have passed (part_001:230-239); the handler does
\* nothing else to lastActivity
SecureExecStarts ==
    /\ srv.pc = "running"
    /\ ~srv.executing
    /\ \E timeoutSeconds \in ToolTimeouts :
           srv' = [onActivity(srv) EXCEPT !.invoked = srv.now,
                                          !.executing = TRUE,
                                          !.deadline = srv.now + timeoutSeconds]
    /\ SrvUnchanged

\* register_tools.go:175-186: Execute has returned and the handler returns
\* the response
SecureExecReturns ==
    /\ srv.pc = "running"
    /\ srv.executing
    /\ srv' = [srv EXCEPT !.executing = FALSE]
    /\ SrvUnchanged

\* time passes; a command that is running is killed at its deadline
ToolTimePasses ==
    /\ srv.executing => srv.now < srv.deadline
    /\ TimePasses

NextToolCall ==
    \/ RunSTDIO
    \/ ToolTimePasses
    \/ SecureExecStarts
    \/ SecureExecReturns
    \/ TickerFires
    \/ Interrupted

SpecToolCall == InitServer /\ [][NextToolCall]_vars

\* C38: the idle supervisor never shuts the server down while a tool call is
\* still executing, however long the call runs.
C38_NotWhileExecuting ==
    ~(srv.pc = "stopped" /\ srv.why = "idle" /\ srv.executing)

\* a call that is executing when the server stops for idleness has run for
\* 30 minutes or more
C38_OnlyLongCalls ==
    (srv.pc = "stopped" /\ srv.why = "idle" /\ srv.executing)
        => srv.stoppedAt - srv.invoked >= idleTimeout

\* the server stopped for idleness during a call with a deadline still ahead
C38_Witness_StoppedDuringCall ==
    /\ srv.pc = "stopped" /\ srv.why = "idle" /\ srv.executing
    /\ srv.stoppedAt < srv.deadline

=============================================================================
